---- MODULE Spec2Model ----
(***************************************************************************)
(* A model of bundled/tool/lsp_jsonrpc.py: the JSON-RPC framing            *)
(* (JsonWriter, JsonReader), the subprocess registry (ProcessManager) and  *)
(* the call facade (get_or_start_json_rpc, run_over_json_rpc), with the    *)
(* parts of lazy_import.py, lsp_server.py and zen_watcher.py around it.    *)
(*                                                                         *)
(* Several specifications share the variables:                             *)
(*   Spec / FairSpec  the ProcessManager with concurrent callers,          *)
(*   SpecRun          the response mapping of run_over_json_rpc,           *)
(*   SpecFrame        one JsonWriter and one JsonReader over a pipe,       *)
(*   SpecEof          a JsonReader whose peer dies inside a frame,         *)
(*   SpecSeq          a JsonReader on several frames in a row,             *)
(*   SpecChan         one JsonRpc used and closed by concurrent threads,   *)
(*   SpecStop         stop_all_processes racing the process monitors,      *)
(*   SpecLate         stop_all_processes racing run_over_json_rpc,         *)
(*   SpecHost         the shutdown, exit and atexit calls of the server,   *)
(*   SpecSuppress     suppress_stdout_stderr blocks on concurrent threads, *)
(*   SpecGet          get_or_start_json_rpc called again and again,        *)
(*   SpecWatch        ZenConfigWatcher and its debounce timers.            *)
(***************************************************************************)
EXTENDS Integers, Sequences, FiniteSets, TLC

\* ------------------------------------------------------------------ bounds
NumThreads == 2      \* host threads calling run_over_json_rpc
NumWorkspaces == 2   \* workspaces followed in detail
MaxCalls == 2        \* run_over_json_rpc calls (one fresh uuid each)
\* a call spawns at most one subprocess
MaxProcs == MaxCalls

\* ThreadPoolExecutor(10): the monitor pool's worker threads
MaxWorkers == 10

Threads == 1..NumThreads
Workspaces == 1..NumWorkspaces
Procs == 1..MaxProcs
NoProc == 0

VARIABLES
  \* ProcessManager
  processes,   \* _processes: workspace -> subprocess (NoProc: no key)
  rpc,         \* _rpc: workspace -> JsonRpc, named by its subprocess (NoProc: no key)
  lock,        \* _lock: NoProc when free, else the monitor that holds it
  queue,       \* _thread_pool: submitted monitor tasks no worker has taken yet
  others,      \* workers held by monitors of workspaces not followed in detail
  mon,         \* _monitor_process of each subprocess: its position
  \* the subprocesses and their pipes
  st,          \* "none" (not spawned), "alive", "exited"
  procWs,      \* the workspace closed over by start_process for this subprocess
  closed,      \* JsonRpc.close has run on the connection of this subprocess
  pending,     \* alive: request ids written to it whose response is unread;
               \* exited: the responses it left unread in its stdout
  \* the calling threads (run_over_json_rpc)
  pc, callWs, res, myProc, msgId, outcome,
  nextId,      \* uuid4 source: ids handed out so far
  \* history
  exitedAtCall, \* registered subprocesses that had exited when the thread's call started
  overlap,      \* two calls for the workspace have been in progress at once
  \* run_over_json_rpc's response mapping (SpecRun)
  data, reqId, runResult,
  \* the framing (SpecFrame)
  platform,    \* the operating system of the host: "posix" or "nt"
  wire,        \* the bytes written to the pipe so far
  eof,         \* the writing end of the pipe has been closed
  rpos,        \* the reader's TextIOWrapper: characters it has consumed
  written,     \* history: the frames written, in order
  readResult,  \* history: what each JsonReader.read call ended with
  \* one JsonRpc connection used by several threads (SpecChan)
  rClosed,     \* JsonReader._reader.closed
  wClosed,     \* JsonWriter._writer.closed
  wLock,       \* JsonWriter._lock: 0 when free, else the thread that holds it
  stream,      \* what has been written to the writer's stream, in order
  cpc,         \* the position of each thread in its operation
  cop,         \* the operation of each thread and what it saw when it began
  done,        \* history: the operations that have returned or raised
  nOps,        \* operations begun so far
  \* ProcessManager.stop_all_processes (SpecStop)
  sPc,         \* its position: "idle", "iter", "shutdown", "returned", "raised"
  sIter,       \* the iterator of self._rpc.values(): size at creation, next key
  sSent,       \* history: the sends it has attempted
  sRegistered, \* history: the workspaces registered when it was called
  poolShut,    \* _thread_pool.shutdown has been called
  \* lazy_import.suppress_stdout_stderr (SpecSuppress)
  sysStdout,   \* sys.stdout: the original stream or a devnull file
  sysStderr,   \* sys.stderr: the original stream or a devnull file
  fnullState,  \* each devnull file: "none" (not opened), "open", "closed"
  supPc,       \* the position of each thread in suppress_stdout_stderr
  fnull,       \* the local fnull of each thread
  originalStdout, originalStderr,  \* the locals original_stdout, original_stderr
  nBlocks,     \* blocks entered so far
  supOverlap,  \* history: a block was entered while another thread was in one
  \* get_or_start_json_rpc called by the host (SpecGet)
  gets,        \* history: the calls, in the order they began
  \* the lifetime of the host (SpecHost)
  host,        \* "running", "shutdown", "exit", "atexit"
  nStops,      \* history: the times stop_all_processes has been entered
  \* zen_watcher.ZenConfigWatcher (SpecWatch)
  fileUrl,      \* store.url in the global config file
  lastKnownUrl, \* self.last_known_url
  selfTimer,    \* self._timer: 0 for None, else the timer created last
  timer,        \* each Timer: its state and the new_url its callback read
  notes,        \* history: the URLs sent with ZENML_SERVER_CHANGED, in order
  watchOverlap  \* history: a callback began while another was running

mgrVars == <<processes, rpc, lock, queue, others, mon, st, procWs, closed,
             pending, pc, callWs, res, myProc, msgId, outcome,
             nextId, exitedAtCall, overlap>>
runVars == <<data, reqId, runResult>>
frameVars == <<platform, wire, eof, rpos, written, readResult>>
chanVars == <<rClosed, wClosed, wLock, stream, cpc, cop, done, nOps>>
stopVars == <<sPc, sIter, sSent, sRegistered, poolShut>>
supVars == <<sysStdout, sysStderr, fnullState, supPc, fnull,
             originalStdout, originalStderr, nBlocks, supOverlap>>
watchVars == <<fileUrl, lastKnownUrl, selfTimer, timer, notes, watchOverlap>>
lateVars == <<gets, host, nStops, watchVars>>
restVars == <<chanVars, stopVars, supVars, lateVars>>
vars == <<mgrVars, runVars, frameVars, restVars>>

\* ------------------------------------------------- run_over_json_rpc: mapping
\* Python's None; no modelled text equals it.
None == "None"
\* a dict with no keys
EmptyDict == [k \in {} |-> None]

Ids == 1..MaxCalls
ResultTexts == {"", "out"}
ErrorTexts == {"err"}

\* The response dicts the subprocess may answer with: every field is optional.
Responses ==
  { i @@ r @@ e @@ x :
      i \in {EmptyDict} \cup { "id" :> v : v \in Ids },
      r \in {EmptyDict} \cup { "result" :> v : v \in ResultTexts },
      e \in {EmptyDict} \cup { "error" :> v : v \in ErrorTexts },
      x \in {EmptyDict} \cup { "exception" :> v : v \in BOOLEAN } }

\* RpcRunResult(stdout, stderr, exception=None), or the exception that escapes
RpcRunResult(stdout, stderr, exception) ==
  [raises |-> None, stdout |-> stdout, stderr |-> stderr, exception |-> exception]
Raise(exc) ==
  [raises |-> exc, stdout |-> None, stderr |-> None, exception |-> None]

\* f"Invalid result for request: {json.dumps(msg, indent=4)}"
InvalidResultText == "Invalid result for request"

\* a facade that never compares the ids
IdDiffers_Unchecked(d, msg_id) == FALSE

\* data["id"] != msg_id
IdDiffers(d, msg_id) == d["id"] # msg_id

\* data["result"] if "result" in data else ""
ResultOf(d) == IF "result" \in DOMAIN d THEN d["result"] ELSE ""

\* a facade that never looks at the exception flag
ExceptionFlag_Ignored(d) == FALSE

\* data.get("exception", False)
ExceptionFlag(d) == IF "exception" \in DOMAIN d THEN d["exception"] ELSE FALSE

\* run_over_json_rpc from the line after receive_data to its return
MapResponse(d, msg_id) ==
  IF "id" \notin DOMAIN d THEN Raise("KeyError")
  ELSE IF IdDiffers(d, msg_id) THEN RpcRunResult("", InvalidResultText, None)
  ELSE IF "error" \in DOMAIN d
       THEN IF ExceptionFlag(d)
            THEN RpcRunResult(ResultOf(d), "", d["error"])
            ELSE RpcRunResult(ResultOf(d), d["error"], None)
       ELSE RpcRunResult(ResultOf(d), "", None)

NotRun == [raises |-> "NotRun", stdout |-> None, stderr |-> None, exception |-> None]

\* ------------------------------------------------------------ ProcessManager
Spawned == {p \in Procs : st[p] # "none"}
Exited == {p \in Procs : st[p] = "exited"}
\* the subprocess the next Popen creates
NewProc == Cardinality(Spawned) + 1
\* workers of the pool that are running a monitor task
Busy == Cardinality({p \in Procs : mon[p] \in {"wait", "pop"}}) + others
InCall(t) == pc[t] # "idle"
\* the workspace's entry in _rpc is the connection of this subprocess
Registered(p) == st[p] # "none" /\ rpc[procWs[p]] = p

\* the locals of a call are dropped when it returns or raises
Return(t, how) ==
  /\ pc' = [pc EXCEPT ![t] = "idle"]
  /\ callWs' = [callWs EXCEPT ![t] = 0]
  /\ res' = [res EXCEPT ![t] = NoProc]
  /\ myProc' = [myProc EXCEPT ![t] = NoProc]
  /\ msgId' = [msgId EXCEPT ![t] = 0]
  /\ exitedAtCall' = [exitedAtCall EXCEPT ![t] = {}]
  /\ outcome' = [outcome EXCEPT ![t] = how]

\* ProcessManager.get_json_rpc under _get_json_rpc: the connection registered
\* for the workspace, or NoProc for the None that _get_json_rpc makes of
\* StreamClosedException
GetJsonRpc(w) == rpc[w]

\* a host thread enters run_over_json_rpc(workspace, ...)
Call(t, w) ==
  /\ pc[t] = "idle"
  /\ nextId < MaxCalls
  /\ pc' = [pc EXCEPT ![t] = "get1"]
  /\ callWs' = [callWs EXCEPT ![t] = w]
  /\ nextId' = nextId + 1
  /\ msgId' = [msgId EXCEPT ![t] = nextId + 1]
  /\ outcome' = [outcome EXCEPT ![t] = "running"]
  /\ exitedAtCall' = [exitedAtCall EXCEPT ![t] = {p \in Exited : Registered(p)}]
  /\ overlap' = [overlap EXCEPT ![w] =
                   @ \/ \E u \in Threads \ {t} : InCall(u) /\ callWs[u] = w]
  /\ UNCHANGED <<runVars, frameVars, restVars>>
  /\ UNCHANGED <<processes, rpc, lock, queue, others, mon, st, procWs, closed,
                 pending, res, myProc>>

\* get_or_start_json_rpc: res = _get_json_rpc(workspace); the lock is taken
\* and released inside get_json_rpc
GetFirst(t) ==
  /\ pc[t] = "get1"
  /\ lock = NoProc
  /\ res' = [res EXCEPT ![t] = GetJsonRpc(callWs[t])]
  /\ pc' = [pc EXCEPT ![t] = IF GetJsonRpc(callWs[t]) # NoProc THEN "send" ELSE "spawn"]
  /\ UNCHANGED <<runVars, frameVars, restVars>>
  /\ UNCHANGED <<processes, rpc, lock, queue, others, mon, st, procWs, closed,
                 pending, callWs, myProc, msgId, outcome, nextId,
                 exitedAtCall, overlap>>

\* start_process: proc = subprocess.Popen(...)
Spawn(t) ==
  /\ pc[t] = "spawn"
  /\ NewProc \in Procs
  /\ st' = [st EXCEPT ![NewProc] = "alive"]
  /\ procWs' = [procWs EXCEPT ![NewProc] = callWs[t]]
  /\ myProc' = [myProc EXCEPT ![t] = NewProc]
  /\ pc' = [pc EXCEPT ![t] = "regProc"]
  /\ UNCHANGED <<runVars, frameVars, restVars>>
  /\ UNCHANGED <<processes, rpc, lock, queue, others, mon, closed, pending, callWs, res, msgId, outcome, nextId, exitedAtCall,
                 overlap>>

\* a start_process that registers the workspace before Popen raises
SpawnFails_Registers(t) ==
  /\ pc[t] = "spawn"
  /\ Return(t, "raised")
  /\ rpc' = [rpc EXCEPT ![callWs[t]] = NewProc]
  /\ UNCHANGED <<runVars, frameVars, restVars>>
  /\ UNCHANGED <<processes, lock, queue, others, mon, st, procWs, closed,
                 pending, nextId, overlap>>

\* start_process: Popen raises (bad interpreter, OS failure); nothing is
\* registered and the error leaves run_over_json_rpc
SpawnFails(t) ==
  /\ pc[t] = "spawn"
  /\ Return(t, "raised")
  /\ UNCHANGED <<runVars, frameVars, restVars>>
  /\ UNCHANGED <<processes, rpc, lock, queue, others, mon, st, procWs, closed,
                 pending, nextId, overlap>>

\* start_process: self._processes[workspace] = proc      (no lock)
RegisterProcess(t) ==
  /\ pc[t] = "regProc"
  /\ processes' = [processes EXCEPT ![callWs[t]] = myProc[t]]
  /\ pc' = [pc EXCEPT ![t] = "regRpc"]
  /\ UNCHANGED <<runVars, frameVars, restVars>>
  /\ UNCHANGED <<rpc, lock, queue, others, mon, st, procWs, closed, pending, callWs, res, myProc, msgId, outcome, nextId,
                 exitedAtCall, overlap>>

\* start_process: self._rpc[workspace] = create_json_rpc(stdout, stdin)   (no lock)
RegisterRpc(t) ==
  /\ pc[t] = "regRpc"
  /\ rpc' = [rpc EXCEPT ![callWs[t]] = myProc[t]]
  /\ pc' = [pc EXCEPT ![t] = "submit"]
  /\ UNCHANGED <<runVars, frameVars, restVars>>
  /\ UNCHANGED <<processes, lock, queue, others, mon, st, procWs, closed,
                 pending, callWs, res, myProc, msgId, outcome,
                 nextId, exitedAtCall, overlap>>

\* start_process: self._thread_pool.submit(_monitor_process); a pool that
\* has been shut down raises RuntimeError, which leaves run_over_json_rpc
SubmitMonitor(t) ==
  /\ pc[t] = "submit"
  /\ IF poolShut
     THEN /\ Return(t, "raised")
          /\ UNCHANGED <<queue, mon>>
     ELSE /\ queue' = Append(queue, myProc[t])
          /\ mon' = [mon EXCEPT ![myProc[t]] = "queued"]
          /\ pc' = [pc EXCEPT ![t] = "get2"]
          /\ UNCHANGED <<callWs, res, myProc, msgId, outcome, exitedAtCall>>
  /\ UNCHANGED <<runVars, frameVars, restVars>>
  /\ UNCHANGED <<processes, rpc, lock, others, st, procWs, closed, pending,
                 nextId, overlap>>

\* get_or_start_json_rpc: res = _get_json_rpc(workspace) after start_process;
\* run_over_json_rpc raises Exception("Failed to run over JSON-RPC.") on None
GetSecond(t) ==
  /\ pc[t] = "get2"
  /\ lock = NoProc
  /\ IF GetJsonRpc(callWs[t]) # NoProc
     THEN /\ res' = [res EXCEPT ![t] = GetJsonRpc(callWs[t])]
          /\ pc' = [pc EXCEPT ![t] = "send"]
          /\ UNCHANGED <<callWs, myProc, msgId, outcome, exitedAtCall>>
     ELSE Return(t, "raised")
  /\ UNCHANGED <<runVars, frameVars, restVars>>
  /\ UNCHANGED <<processes, rpc, lock, queue, others, mon, st, procWs, closed,
                 pending, nextId, overlap>>

\* run_over_json_rpc: rpc.send_data(msg), that is JsonWriter.write.  A closed
\* writer raises StreamClosedException, the pipe of an exited subprocess
\* raises BrokenPipeError on flush.
Send(t) ==
  /\ pc[t] = "send"
  /\ IF closed[res[t]] \/ st[res[t]] = "exited"
     THEN /\ Return(t, "raised")
          /\ UNCHANGED pending
     ELSE /\ pending' = [pending EXCEPT ![res[t]] = Append(@, msgId[t])]
          /\ pc' = [pc EXCEPT ![t] = "recv"]
          /\ UNCHANGED <<callWs, res, myProc, msgId, outcome, exitedAtCall>>
  /\ UNCHANGED <<runVars, frameVars, restVars>>
  /\ UNCHANGED <<processes, rpc, lock, queue, others, mon, st, procWs, closed,
                 nextId, overlap>>

\* what the call makes of the response it read
OutcomeOf(r) ==
  IF r.raises # None THEN "raised"
  ELSE IF r.stderr = InvalidResultText THEN "mismatch"
  ELSE "ok"

\* a read that leaves the response in the pipe
AfterRead_Kept(q) == q

\* the stdout pipe after one response was read from it
AfterRead(q) == Tail(q)

\* run_over_json_rpc: data = rpc.receive_data() and the mapping of data.
\* JsonReader.read blocks while the subprocess lives and has written nothing;
\* a closed reader raises StreamClosedException, end of file raises EOFError.
Receive(t) ==
  /\ pc[t] = "recv"
  /\ IF closed[res[t]]
     THEN /\ Return(t, "raised")
          /\ UNCHANGED pending
     ELSE IF pending[res[t]] # <<>>
     THEN /\ pending' = [pending EXCEPT ![res[t]] = AfterRead(@)]
          /\ Return(t, OutcomeOf(MapResponse("id" :> Head(pending[res[t]]), msgId[t])))
     ELSE /\ st[res[t]] = "exited"
          /\ Return(t, "raised")
          /\ UNCHANGED pending
  /\ UNCHANGED <<runVars, frameVars, restVars>>
  /\ UNCHANGED <<processes, rpc, lock, queue, others, mon, st, procWs, closed,
                 nextId, overlap>>

\* The subprocess ends (exit, crash, kill) having answered the first k of the
\* requests it was sent; the answers stay readable in its stdout pipe.
ProcessExits(p, k) ==
  /\ st[p] = "alive"
  /\ k \in 0..Len(pending[p])
  /\ st' = [st EXCEPT ![p] = "exited"]
  /\ pending' = [pending EXCEPT ![p] = SubSeq(@, 1, k)]
  /\ UNCHANGED <<runVars, frameVars, restVars>>
  /\ UNCHANGED <<processes, rpc, lock, queue, others, mon, procWs, closed,
                 pc, callWs, res, myProc, msgId, outcome, nextId,
                 exitedAtCall, overlap>>

\* a free worker of the pool takes the oldest submitted monitor task, which
\* then blocks in proc.wait()
MonitorStarts(p) ==
  /\ queue # <<>>
  /\ Head(queue) = p
  /\ Busy < MaxWorkers
  /\ queue' = Tail(queue)
  /\ mon' = [mon EXCEPT ![p] = "wait"]
  /\ UNCHANGED <<runVars, frameVars, restVars>>
  /\ UNCHANGED <<processes, rpc, lock, others, st, procWs, closed, pending,
                 pc, callWs, res, myProc, msgId, outcome, nextId,
                 exitedAtCall, overlap>>

\* _monitor_process: proc.wait() returns; with self._lock:
\*   del self._processes[workspace]; a KeyError ends the task (bare except)
MonitorDeletes(p) ==
  /\ mon[p] = "wait"
  /\ st[p] = "exited"
  /\ lock = NoProc
  /\ IF processes[procWs[p]] # NoProc
     THEN /\ processes' = [processes EXCEPT ![procWs[p]] = NoProc]
          /\ lock' = p
          /\ mon' = [mon EXCEPT ![p] = "pop"]
     ELSE /\ mon' = [mon EXCEPT ![p] = "done"]
          /\ UNCHANGED <<processes, lock>>
  /\ UNCHANGED <<runVars, frameVars, restVars>>
  /\ UNCHANGED <<rpc, queue, others, st, procWs, closed, pending, pc, callWs,
                 res, myProc, msgId, outcome, nextId, exitedAtCall, overlap>>

\* _monitor_process: rpc = self._rpc.pop(workspace); rpc.close(); a KeyError
\* ends the task; the lock is released
MonitorPops(p) ==
  /\ mon[p] = "pop"
  /\ IF rpc[procWs[p]] # NoProc
     THEN /\ closed' = [closed EXCEPT ![rpc[procWs[p]]] = TRUE]
          /\ rpc' = [rpc EXCEPT ![procWs[p]] = NoProc]
     ELSE UNCHANGED <<rpc, closed>>
  /\ lock' = NoProc
  /\ mon' = [mon EXCEPT ![p] = "done"]
  /\ UNCHANGED <<runVars, frameVars, restVars>>
  /\ UNCHANGED <<processes, queue, others, st, procWs, pending, pc, callWs,
                 res, myProc, msgId, outcome, nextId, exitedAtCall, overlap>>

\* start_process for a workspace that is not followed in detail: its monitor
\* takes a free worker and blocks in proc.wait()
OtherStarts ==
  /\ Busy < MaxWorkers
  /\ queue = <<>>
  /\ others' = others + 1
  /\ UNCHANGED <<runVars, frameVars, restVars>>
  /\ UNCHANGED <<processes, rpc, lock, queue, mon, st, procWs, closed, pending,
                 pc, callWs, res, myProc, msgId, outcome, nextId,
                 exitedAtCall, overlap>>

\* the subprocess of such a workspace exits and its monitor finishes
OtherExits ==
  /\ others > 0
  /\ others' = others - 1
  /\ UNCHANGED <<runVars, frameVars, restVars>>
  /\ UNCHANGED <<processes, rpc, lock, queue, mon, st, procWs, closed, pending,
                 pc, callWs, res, myProc, msgId, outcome, nextId,
                 exitedAtCall, overlap>>

\* ------------------------------------------------------------------ framing
\* Text is a sequence of Unicode code points, a pipe carries bytes.
MaxStrLen == 2       \* characters in a string of a message
MaxFrames == 1       \* frames written to the pipe

Ch == [tab |-> 9, lf |-> 10, cr |-> 13, space |-> 32, quote |-> 34,
       plus |-> 43, zero |-> 48, nine |-> 57, colon |-> 58, backslash |-> 92,
       lbrace |-> 123, rbrace |-> 125, n |-> 110, r |-> 114, u |-> 117,
       a |-> 97, f |-> 102, eacute |-> 233]

\* CONTENT_LENGTH = "Content-Length: "
CONTENT_LENGTH == <<67, 111, 110, 116, 101, 110, 116, 45, 76, 101, 110, 103,
                    116, 104, 58, 32>>
CRLF == <<Ch.cr, Ch.lf>>

\* the characters message strings are made of: a, a double quote, a line
\* feed, and e-acute (two bytes in UTF-8)
Alphabet == {Ch.a, Ch.quote, Ch.lf, Ch.eacute}
Strings == UNION {[1..n -> Alphabet] : n \in 0..MaxStrLen}

\* the key "id"
IdKey == <<105, 100>>
\* JSON values: a string, or an object with one string member
JStr(x) == [kind |-> "str", key |-> <<>>, val |-> x]
JObj(k, x) == [kind |-> "obj", key |-> k, val |-> x]
Messages == {JStr(x) : x \in Strings} \cup {JObj(IdKey, x) : x \in Strings}

\* the concatenation of a sequence of sequences of numbers >= 0
Flatten(ss) ==
  LET n == Len(ss)
      widest == IF n = 0 THEN 0
                ELSE CHOOSE m \in {Len(ss[i]) : i \in 1..n} :
                       \A i \in 1..n : Len(ss[i]) <= m
      padded == [k \in 1..(n * widest) |->
                  LET i == ((k - 1) \div widest) + 1
                      j == ((k - 1) % widest) + 1
                  IN IF j <= Len(ss[i]) THEN ss[i][j] ELSE -1]
  IN SelectSeq(padded, LAMBDA x : x >= 0)

StartsWith(t, prefix) ==
  Len(t) >= Len(prefix) /\ SubSeq(t, 1, Len(prefix)) = prefix

\* str.encode("utf-8") and the encoder of a TextIOWrapper(encoding="utf-8")
Utf8Char(c) ==
  IF c < 128 THEN <<c>>
  ELSE IF c < 2048 THEN <<192 + (c \div 64), 128 + (c % 64)>>
  ELSE <<224 + (c \div 4096), 128 + ((c \div 64) % 64), 128 + (c % 64)>>
Utf8(t) == Flatten([i \in 1..Len(t) |-> Utf8Char(t[i])])

\* stands in the decoded text for the bytes of a character whose last bytes
\* have not arrived: the incremental decoder holds them back, and raises
\* UnicodeDecodeError when the stream ends there
Incomplete == 1114112

\* the decoder of a TextIOWrapper(encoding="utf-8"), on a prefix of
\* well-formed input
Utf8Decode(b) ==
  LET leads == SelectSeq([i \in 1..Len(b) |-> i],
                         LAMBDA i : b[i] < 128 \/ b[i] >= 192)
  IN [k \in 1..Len(leads) |->
       LET i == leads[k]
       IN IF b[i] < 128 THEN b[i]
          ELSE IF b[i] < 224
          THEN IF i + 1 > Len(b) THEN Incomplete
               ELSE (b[i] - 192) * 64 + (b[i + 1] - 128)
          ELSE IF i + 2 > Len(b) THEN Incomplete
               ELSE (b[i] - 224) * 4096 + (b[i + 1] - 128) * 64 + (b[i + 2] - 128)]
\* the text ends with bytes the decoder holds back
HeldBack(t) == t # <<>> /\ t[Len(t)] = Incomplete
\* the characters decoded so far
Decoded(t) == IF HeldBack(t) THEN SubSeq(t, 1, Len(t) - 1) ELSE t

\* io.TextIOWrapper(writable, encoding="utf-8"): newline=None, so every "\n"
\* written becomes os.linesep, which is "\r\n" on Windows ("nt") and "\n"
\* elsewhere ("posix")
WriteTranslate(t, os) ==
  IF os = "nt"
  THEN Flatten([i \in 1..Len(t) |-> IF t[i] = Ch.lf THEN CRLF ELSE <<t[i]>>])
  ELSE t

\* io.TextIOWrapper(readable, encoding="utf-8"): newline=None, universal
\* newlines on every platform: "\r\n" and "\r" are read as "\n"
ReadTranslate(t) ==
  Flatten([i \in 1..Len(t) |->
    IF t[i] = Ch.cr THEN <<Ch.lf>>
    ELSE IF t[i] = Ch.lf /\ i > 1 /\ t[i - 1] = Ch.cr THEN <<>>
    ELSE <<t[i]>>])

\* str(n): the decimal digits
RECURSIVE Decimal(_)
Decimal(n) ==
  IF n < 10 THEN <<Ch.zero + n>> ELSE Decimal(n \div 10) \o <<Ch.zero + (n % 10)>>

HexDigit(d) == IF d < 10 THEN Ch.zero + d ELSE Ch.a + (d - 10)
\* "\\u{0:04x}"
UEscape(c) ==
  <<Ch.backslash, Ch.u, HexDigit(c \div 4096), HexDigit((c \div 256) % 16),
    HexDigit((c \div 16) % 16), HexDigit(c % 16)>>

\* json.dumps of one character of a string; ensure_ascii decides whether a
\* character above ASCII is escaped
EscapeChar(c, ensure_ascii) ==
  IF c = Ch.quote THEN <<Ch.backslash, Ch.quote>>
  ELSE IF c = Ch.backslash THEN <<Ch.backslash, Ch.backslash>>
  ELSE IF c = Ch.lf THEN <<Ch.backslash, Ch.n>>
  ELSE IF c = Ch.cr THEN <<Ch.backslash, Ch.r>>
  ELSE IF c < 32 \/ (ensure_ascii /\ c > 126) THEN UEscape(c)
  ELSE <<c>>

DumpsString(x, ensure_ascii) ==
  <<Ch.quote>> \o Flatten([i \in 1..Len(x) |-> EscapeChar(x[i], ensure_ascii)])
    \o <<Ch.quote>>

\* json.dumps(value, ensure_ascii=...), with the default separators
Dumps(v, ensure_ascii) ==
  IF v.kind = "str" THEN DumpsString(v.val, ensure_ascii)
  ELSE <<Ch.lbrace>> \o DumpsString(v.key, ensure_ascii) \o <<Ch.colon, Ch.space>>
         \o DumpsString(v.val, ensure_ascii) \o <<Ch.rbrace>>

\* json.dumps(data): ensure_ascii is True by default
JsonDumps(v) == Dumps(v, TRUE)

\* ---- json.loads, for the values modelled: strings and one-member objects
IsJsonSpace(c) == c \in {Ch.space, Ch.tab, Ch.lf, Ch.cr}
RECURSIVE SkipSpace(_, _)
SkipSpace(t, i) ==
  IF i <= Len(t) /\ IsJsonSpace(t[i]) THEN SkipSpace(t, i + 1) ELSE i

HexValue(c) ==
  IF c >= Ch.zero /\ c <= Ch.nine THEN c - Ch.zero
  ELSE IF c >= Ch.a /\ c <= Ch.f THEN c - Ch.a + 10
  ELSE IF c >= 65 /\ c <= 70 THEN c - 65 + 10
  ELSE -1

NoValue == [kind |-> "none", key |-> <<>>, val |-> <<>>]
ParseFail == [ok |-> FALSE, val |-> <<>>, next |-> 0]

\* the characters of a string from position i (after the opening quote) to
\* its closing quote
RECURSIVE StringBody(_, _, _)
StringBody(t, i, acc) ==
  IF i > Len(t) THEN ParseFail
  ELSE IF t[i] = Ch.quote THEN [ok |-> TRUE, val |-> acc, next |-> i + 1]
  ELSE IF t[i] = Ch.backslash
       THEN IF i + 1 > Len(t) THEN ParseFail
            ELSE IF t[i + 1] \in {Ch.quote, Ch.backslash, 47}
                 THEN StringBody(t, i + 2, Append(acc, t[i + 1]))
            ELSE IF t[i + 1] = Ch.n THEN StringBody(t, i + 2, Append(acc, Ch.lf))
            ELSE IF t[i + 1] = Ch.r THEN StringBody(t, i + 2, Append(acc, Ch.cr))
            ELSE IF t[i + 1] = 116 THEN StringBody(t, i + 2, Append(acc, Ch.tab))
            ELSE IF t[i + 1] = Ch.u
                 THEN IF i + 5 > Len(t)
                         \/ \E k \in 2..5 : HexValue(t[i + k]) < 0
                      THEN ParseFail
                      ELSE StringBody(t, i + 6,
                             Append(acc, HexValue(t[i + 2]) * 4096
                                         + HexValue(t[i + 3]) * 256
                                         + HexValue(t[i + 4]) * 16
                                         + HexValue(t[i + 5])))
            ELSE ParseFail
  ELSE IF t[i] < 32 THEN ParseFail
  ELSE StringBody(t, i + 1, Append(acc, t[i]))

ParseString(t, i) ==
  IF i <= Len(t) /\ t[i] = Ch.quote THEN StringBody(t, i + 1, <<>>) ELSE ParseFail

Loaded(v) == [raises |-> None, value |-> v]
LoadFails(exc) == [raises |-> exc, value |-> NoValue]

\* the whole text must be one value between optional white space
EndOfValue(t, i, v) ==
  IF SkipSpace(t, i) > Len(t) THEN Loaded(v) ELSE LoadFails("JSONDecodeError")

LoadsObject(t, i) ==
  LET k == ParseString(t, SkipSpace(t, i + 1))
      c == SkipSpace(t, k.next)
      x == ParseString(t, SkipSpace(t, c + 1))
      e == SkipSpace(t, x.next)
  IN IF ~k.ok \/ c > Len(t) \/ t[c] # Ch.colon THEN LoadFails("JSONDecodeError")
     ELSE IF ~x.ok \/ e > Len(t) \/ t[e] # Ch.rbrace THEN LoadFails("JSONDecodeError")
     ELSE EndOfValue(t, e + 1, JObj(k.val, x.val))

\* json.loads(content)
JsonLoads(t) ==
  LET i == SkipSpace(t, 1)
  IN IF i > Len(t) THEN LoadFails("JSONDecodeError")
     ELSE IF t[i] = Ch.quote
          THEN LET x == ParseString(t, i)
               IN IF x.ok THEN EndOfValue(t, x.next, JStr(x.val))
                  ELSE LoadFails("JSONDecodeError")
     ELSE IF t[i] = Ch.lbrace THEN LoadsObject(t, i)
     ELSE LoadFails("JSONDecodeError")

\* ---- JsonWriter.write
\* length = len(content.encode("utf-8"))
ContentLength(content) == Len(Utf8(content))

\* a writer that ends the frame with a line end
FrameText_TrailingNewline(v) ==
  CONTENT_LENGTH \o Decimal(ContentLength(JsonDumps(v))) \o CRLF \o CRLF
    \o JsonDumps(v) \o <<Ch.lf>>

\* f"{CONTENT_LENGTH}{length}\r\n\r\n{content}"
FrameText(v) ==
  CONTENT_LENGTH \o Decimal(ContentLength(JsonDumps(v))) \o CRLF \o CRLF
    \o JsonDumps(v)

\* self._writer.write(...); self._writer.flush(): the bytes that reach the pipe
WriterBytes(v, os) == Utf8(WriteTranslate(FrameText(v), os))

\* ---- JsonReader.read
\* int(text), for decimal digits between optional white space; -1 stands
\* for the ValueError of any other text
IsSpace(c) == c \in {9, 10, 11, 12, 13, 28, 29, 30, 31, 32, 133, 160}
Strip(x) ==
  LET keep == {i \in 1..Len(x) : ~IsSpace(x[i])}
  IN IF keep = {} THEN <<>>
     ELSE SubSeq(x, CHOOSE i \in keep : \A j \in keep : i <= j,
                    CHOOSE i \in keep : \A j \in keep : i >= j)
RECURSIVE DigitsValue(_, _)
DigitsValue(x, acc) ==
  IF x = <<>> THEN acc
  ELSE IF Head(x) < Ch.zero \/ Head(x) > Ch.nine THEN -1
  ELSE DigitsValue(Tail(x), acc * 10 + (Head(x) - Ch.zero))
ParseInt(x) == IF Strip(x) = <<>> THEN -1 ELSE DigitsValue(Strip(x), 0)

\* the index of the next "\n" at or after i, 0 when there is none
FindLf(t, i) ==
  LET at == {j \in i..Len(t) : t[j] = Ch.lf}
  IN IF at = {} THEN 0 ELSE CHOOSE j \in at : \A k \in at : j <= k

\* self._reader.readline() from position p: the index of the line's last
\* character; 0 when the call blocks (no full line yet and the pipe is open),
\* -1 for the empty string read at end of file and -2 when the stream ends
\* inside a character
LineEnd(t, p, atEof) ==
  IF FindLf(t, p) # 0 THEN FindLf(t, p)
  ELSE IF ~atEof THEN 0
  ELSE IF HeldBack(t) THEN -2
  ELSE IF p > Len(t) THEN -1
  ELSE Len(t)

ReadEnds(status, exc, v, pos) ==
  [status |-> status, raises |-> exc, value |-> v, pos |-> pos]
Blocked(p) == ReadEnds("blocked", None, NoValue, p)

\* a reader that takes every "Content-" header for the length
IsLengthLine_AnyContentHeader(line) == StartsWith(line, SubSeq(CONTENT_LENGTH, 1, 8))

\* line.startswith(CONTENT_LENGTH)
IsLengthLine(line) == StartsWith(line, CONTENT_LENGTH)

\* content = to_str(self._reader.read(length)); return json.loads(content)
\* read(n) returns n characters, fewer only at end of file
ReadBody(t, p, atEof, length) ==
  IF Len(Decoded(t)) - p + 1 >= length
  THEN LET r == JsonLoads(SubSeq(t, p, p + length - 1))
       IN ReadEnds(IF r.raises = None THEN "returned" ELSE "raised",
                   r.raises, r.value, p + length)
  ELSE IF ~atEof THEN Blocked(p)
  ELSE IF HeldBack(t) THEN ReadEnds("raised", "UnicodeDecodeError", NoValue, p)
  ELSE LET r == JsonLoads(SubSeq(t, p, Len(t)))
       IN ReadEnds(IF r.raises = None THEN "returned" ELSE "raised",
                   r.raises, r.value, Len(t) + 1)

\* line = to_str(self._readline()).strip(); while line: ...
RECURSIVE SkipToBlankLine(_, _, _, _)
SkipToBlankLine(t, p, atEof, length) ==
  LET e == LineEnd(t, p, atEof)
  IN IF e = 0 THEN Blocked(p)
     ELSE IF e = -1 THEN ReadEnds("raised", "EOFError", NoValue, p)
     ELSE IF e = -2 THEN ReadEnds("raised", "UnicodeDecodeError", NoValue, p)
     ELSE IF Strip(SubSeq(t, p, e)) = <<>> THEN ReadBody(t, e + 1, atEof, length)
     ELSE SkipToBlankLine(t, e + 1, atEof, length)

\* length = None; while not length: ... int(line[len(CONTENT_LENGTH):])
RECURSIVE FindLength(_, _, _)
FindLength(t, p, atEof) ==
  LET e == LineEnd(t, p, atEof)
      line == SubSeq(t, p, e)
      n == ParseInt(SubSeq(line, Len(CONTENT_LENGTH) + 1, Len(line)))
  IN IF e = 0 THEN Blocked(p)
     ELSE IF e = -1 THEN ReadEnds("raised", "EOFError", NoValue, p)
     ELSE IF e = -2 THEN ReadEnds("raised", "UnicodeDecodeError", NoValue, p)
     ELSE IF ~IsLengthLine(line) THEN FindLength(t, e + 1, atEof)
     ELSE IF n < 0 THEN ReadEnds("raised", "ValueError", NoValue, e + 1)
     ELSE IF n = 0 THEN FindLength(t, e + 1, atEof)
     ELSE SkipToBlankLine(t, e + 1, atEof, n)

\* the text the reader's TextIOWrapper makes of the bytes of the pipe
PipeText(bytes) == ReadTranslate(Utf8Decode(bytes))

\* JsonReader.read on an open reader that has consumed `consumed` characters
ReaderRead(bytes, consumed, atEof) == FindLength(PipeText(bytes), consumed + 1, atEof)

\* ------------------------------------------------------------ specifications
\* ProcessManager.__init__ and no call in progress
InitManager ==
  /\ processes = [w \in Workspaces |-> NoProc]
  /\ rpc = [w \in Workspaces |-> NoProc]
  /\ lock = NoProc
  /\ queue = <<>>
  /\ others = 0
  /\ mon = [p \in Procs |-> "none"]
  /\ st = [p \in Procs |-> "none"]
  /\ procWs = [p \in Procs |-> 0]
  /\ closed = [p \in Procs |-> FALSE]
  /\ pending = [p \in Procs |-> <<>>]
  /\ pc = [t \in Threads |-> "idle"]
  /\ callWs = [t \in Threads |-> 0]
  /\ res = [t \in Threads |-> NoProc]
  /\ myProc = [t \in Threads |-> NoProc]
  /\ msgId = [t \in Threads |-> 0]
  /\ outcome = [t \in Threads |-> "none"]
  /\ nextId = 0
  /\ exitedAtCall = [t \in Threads |-> {}]
  /\ overlap = [w \in Workspaces |-> FALSE]

IdleRun == data = EmptyDict /\ reqId = 0 /\ runResult = NotRun
IdleFrame ==
  /\ platform = "posix" /\ wire = <<>> /\ eof = FALSE /\ rpos = 0
  /\ written = <<>> /\ readResult = <<>>

\* create_json_rpc: both streams open, the lock free, no operation begun
NoOp == [op |-> "none", msg |-> 0, rc |-> FALSE, wc |-> FALSE, failed |-> {}]
InitChan ==
  /\ rClosed = FALSE /\ wClosed = FALSE /\ wLock = 0 /\ stream = <<>>
  /\ cpc = [t \in Threads |-> "idle"]
  /\ cop = [t \in Threads |-> NoOp]
  /\ done = <<>>
  /\ nOps = 0
\* stop_all_processes has not been called
IdleStop ==
  /\ sPc = "idle" /\ sIter = [size |-> 0, pos |-> 1] /\ sSent = <<>>
  /\ sRegistered = {} /\ poolShut = FALSE
\* the interpreter has its original streams and no block has been entered
MaxBlocks == 3       \* suppress_stdout_stderr blocks entered
Files == 1..MaxBlocks
\* the streams the interpreter started with, and a local not yet assigned
OrigStdout == MaxBlocks + 1
OrigStderr == MaxBlocks + 2
Unset == 0
InitSuppress ==
  /\ sysStdout = OrigStdout /\ sysStderr = OrigStderr
  /\ supOverlap = FALSE
  /\ fnullState = [f \in Files |-> "none"]
  /\ supPc = [t \in Threads |-> "out"]
  /\ fnull = [t \in Threads |-> 0]
  /\ originalStdout = [t \in Threads |-> Unset]
  /\ originalStderr = [t \in Threads |-> Unset]
  /\ nBlocks = 0
\* no call of get_or_start_json_rpc yet, the server is running
MaxEvents == 3       \* on_modified events for the global config file
Timers == 1..MaxEvents
Urls == {"a", "b"}
\* ZenConfigWatcher.__init__: no timer, last_known_url = ""
IdleWatch ==
  /\ fileUrl = "" /\ lastKnownUrl = "" /\ selfTimer = 0
  /\ timer = [i \in Timers |-> [state |-> "none", newUrl |-> ""]]
  /\ notes = <<>> /\ watchOverlap = FALSE
IdleLate == gets = <<>> /\ host = "running" /\ nStops = 0 /\ IdleWatch
IdleRest == InitChan /\ IdleStop /\ InitSuppress /\ IdleLate

Init == InitManager /\ IdleRun /\ IdleFrame /\ IdleRest

Next ==
  \/ \E t \in Threads, w \in Workspaces : Call(t, w)
  \/ \E t \in Threads : GetFirst(t)
  \/ \E t \in Threads : Spawn(t)
  \/ \E t \in Threads : SpawnFails(t)
  \/ \E t \in Threads : RegisterProcess(t)
  \/ \E t \in Threads : RegisterRpc(t)
  \/ \E t \in Threads : SubmitMonitor(t)
  \/ \E t \in Threads : GetSecond(t)
  \/ \E t \in Threads : Send(t)
  \/ \E t \in Threads : Receive(t)
  \/ \E p \in Procs, k \in 0..NumThreads : ProcessExits(p, k)
  \/ \E p \in Procs : MonitorStarts(p)
  \/ \E p \in Procs : MonitorDeletes(p)
  \/ \E p \in Procs : MonitorPops(p)

Spec == Init /\ [][Next]_vars

\* The pool specification: the monitor pool with its ten workers shared with
\* the workspaces that are not followed in detail.  One thread calls, so no
\* two registrations race.  The fairness is that of the operating system's
\* scheduler: a thread that can take its next step eventually takes it.  A
\* subprocess is not obliged to exit, and the host is not obliged to call.
PoolThreads == {1}

NextPool ==
  \/ \E t \in PoolThreads, w \in Workspaces : Call(t, w)
  \/ \E t \in PoolThreads : GetFirst(t)
  \/ \E t \in PoolThreads : Spawn(t)
  \/ \E t \in PoolThreads : SpawnFails(t)
  \/ \E t \in PoolThreads : RegisterProcess(t)
  \/ \E t \in PoolThreads : RegisterRpc(t)
  \/ \E t \in PoolThreads : SubmitMonitor(t)
  \/ \E t \in PoolThreads : GetSecond(t)
  \/ \E t \in PoolThreads : Send(t)
  \/ \E t \in PoolThreads : Receive(t)
  \/ \E p \in Procs, k \in 0..NumThreads : ProcessExits(p, k)
  \/ \E p \in Procs : MonitorStarts(p)
  \/ \E p \in Procs : MonitorDeletes(p)
  \/ \E p \in Procs : MonitorPops(p)
  \/ OtherStarts
  \/ OtherExits

ThreadStep(t) ==
  \/ GetFirst(t) \/ Spawn(t) \/ RegisterProcess(t) \/ RegisterRpc(t)
  \/ SubmitMonitor(t) \/ GetSecond(t) \/ Send(t) \/ Receive(t)

MonitorStep(p) == MonitorStarts(p) \/ MonitorDeletes(p) \/ MonitorPops(p)

FairSpec ==
  /\ Init
  /\ [][NextPool]_vars
  /\ \A t \in PoolThreads : WF_vars(ThreadStep(t))
  /\ \A p \in Procs : WF_vars(MonitorStep(p))

\* The mapping specification: run_over_json_rpc has sent the request reqId
\* and receive_data returns the dict data; the call then maps it.
InitRun ==
  /\ InitManager /\ IdleFrame /\ IdleRest
  /\ data \in Responses
  /\ reqId \in Ids
  /\ runResult = NotRun

RunMaps ==
  /\ runResult = NotRun
  /\ runResult' = MapResponse(data, reqId)
  /\ UNCHANGED <<data, reqId, mgrVars, frameVars, restVars>>

NextRun == RunMaps

SpecRun == InitRun /\ [][NextRun]_vars

\* The framing specification: one pipe, written by JsonWriter.write on the
\* host's platform or by a peer that frames its messages itself, and read by
\* JsonReader.read.
MaxReads == MaxFrames + 1

\* header lines a peer may add: none, or "Content-Type: a\r\n"
ExtraHeaders ==
  {<<>>, <<67, 111, 110, 116, 101, 110, 116, 45, 84, 121, 112, 101, 58, 32, 97>> \o CRLF}

\* a frame as a peer writes it: optional headers around the Content-Length
\* line, a blank line, and the body as UTF-8, escaped to ASCII or not
PeerBytes(v, ensure_ascii, before, after) ==
  Utf8(before \o CONTENT_LENGTH \o Decimal(Len(Utf8(Dumps(v, ensure_ascii)))) \o CRLF
         \o after \o CRLF \o Dumps(v, ensure_ascii))

InitFrame ==
  /\ InitManager /\ IdleRun /\ IdleRest
  /\ platform \in {"posix", "nt"}
  /\ wire = <<>>
  /\ eof = FALSE
  /\ rpos = 0
  /\ written = <<>>
  /\ readResult = <<>>

\* JsonWriter.write(v) on the host
WriterWrites(v) ==
  /\ Len(written) < MaxFrames
  /\ ~eof
  /\ wire' = wire \o WriterBytes(v, platform)
  /\ written' = Append(written,
       [by |-> "writer", msg |-> v, ascii |-> TRUE, before |-> <<>>,
        after |-> <<>>, first |-> Len(wire) + 1])
  /\ UNCHANGED <<platform, eof, rpos, readResult, mgrVars, runVars, restVars>>

\* the peer writes a frame
PeerWrites(v, ensure_ascii, before, after) ==
  /\ Len(written) < MaxFrames
  /\ ~eof
  /\ wire' = wire \o PeerBytes(v, ensure_ascii, before, after)
  /\ written' = Append(written,
       [by |-> "peer", msg |-> v, ascii |-> ensure_ascii, before |-> before,
        after |-> after, first |-> Len(wire) + 1])
  /\ UNCHANGED <<platform, eof, rpos, readResult, mgrVars, runVars, restVars>>

\* the writing end of the pipe is closed
PipeCloses ==
  /\ ~eof
  /\ eof' = TRUE
  /\ UNCHANGED <<platform, wire, rpos, written, readResult, mgrVars, runVars, restVars>>

\* JsonReader.read() returns or raises; a blocked call changes nothing
ReaderReads ==
  LET r == ReaderRead(wire, rpos, eof)
  IN /\ Len(readResult) < MaxReads
     /\ r.status # "blocked"
     /\ readResult' = Append(readResult,
          [status |-> r.status, raises |-> r.raises, value |-> r.value,
           from |-> rpos, to |-> r.pos - 1, atEof |-> eof, avail |-> Len(wire)])
     /\ rpos' = r.pos - 1
     /\ UNCHANGED <<platform, wire, eof, written, mgrVars, runVars, restVars>>

NextFrame ==
  \/ \E v \in Messages : WriterWrites(v)
  \/ \E v \in Messages, ensure_ascii \in BOOLEAN,
        before \in ExtraHeaders, after \in ExtraHeaders :
       PeerWrites(v, ensure_ascii, before, after)
  \/ PipeCloses
  \/ ReaderReads

SpecFrame == InitFrame /\ [][NextFrame]_vars

\* The end-of-file specification: the subprocess dies while it writes a
\* frame, so the pipe ends after the first k bytes of the frame, and
\* JsonReader.read is called on what is there.
PeerDies(v, ensure_ascii, k) ==
  /\ written = <<>>
  /\ ~eof
  /\ k \in 1..(Len(PeerBytes(v, ensure_ascii, <<>>, <<>>)) - 1)
  /\ wire' = SubSeq(PeerBytes(v, ensure_ascii, <<>>, <<>>), 1, k)
  /\ eof' = TRUE
  /\ written' = <<[by |-> "peer", msg |-> v, ascii |-> ensure_ascii,
                   before |-> <<>>, after |-> <<>>, first |-> 1]>>
  /\ UNCHANGED <<platform, rpos, readResult, mgrVars, runVars, restVars>>

MaxFrameLen == Len(CONTENT_LENGTH) + 2 + 4 + 16 + 6 * MaxStrLen

NextEof ==
  \/ \E v \in Messages, ensure_ascii \in BOOLEAN, k \in 1..MaxFrameLen :
       PeerDies(v, ensure_ascii, k)
  \/ ReaderReads

SpecEof == InitFrame /\ [][NextEof]_vars

\* The sequence specification: several frames follow each other on one pipe,
\* written by JsonWriter.write or by a peer, whose frame may declare
\* Content-Length 0 and have no body.
MaxSeq == 2          \* frames written to the pipe one after the other

SeqFrames ==
  {[by |-> "writer", msg |-> JStr(<<c>>), ascii |-> TRUE] : c \in {Ch.a, Ch.eacute}}
    \cup {[by |-> "peer", msg |-> JStr(<<c>>), ascii |-> e] :
             c \in {Ch.a, Ch.eacute}, e \in BOOLEAN}
    \cup {[by |-> "peer", msg |-> NoValue, ascii |-> TRUE]}

\* the bytes of such a frame
FrameBytes(f, os) ==
  IF f.by = "writer" THEN WriterBytes(f.msg, os)
  ELSE IF f.msg = NoValue THEN Utf8(CONTENT_LENGTH \o Decimal(0) \o CRLF \o CRLF)
  ELSE PeerBytes(f.msg, f.ascii, <<>>, <<>>)

\* the next frame is written to the pipe
SeqWrites(f) ==
  /\ Len(written) < MaxSeq
  /\ ~eof
  /\ wire' = wire \o FrameBytes(f, platform)
  /\ written' = Append(written,
       [by |-> f.by, msg |-> f.msg, ascii |-> f.ascii, before |-> <<>>,
        after |-> <<>>, first |-> Len(wire) + 1])
  /\ UNCHANGED <<platform, eof, rpos, readResult, mgrVars, runVars, restVars>>

NextSeq ==
  \/ \E f \in SeqFrames : SeqWrites(f)
  \/ PipeCloses
  \/ ReaderReads

SpecSeq == InitFrame /\ [][NextSeq]_vars

\* ------------------------------------------------------- one JsonRpc, shared
\* The channel specification: the threads of the host call send_data, read
\* and the three close methods on one JsonRpc.  The pipes themselves work;
\* closing a stream may fail in the operating system.
MaxOps == 3          \* operations begun on the connection

\* a lock that any number of threads may hold
LockFree_NotExclusive(l) == TRUE

\* with self._lock: the lock can be taken
LockFree(l) == l = 0

\* a close that closes the stream again when it is closed already
CloseOutcome_Unguarded(alreadyClosed, fails) == IF fails THEN "OSError" ELSE None

\* if not stream.closed: stream.close() -- what it raises, if anything
CloseOutcome(alreadyClosed, fails) ==
  IF alreadyClosed THEN None ELSE IF fails THEN "OSError" ELSE None

\* a handler that lets the error through
Swallow_Propagates(exc) == exc

\* try: ... except: pass
Swallow(exc) == None

Header(m) == [msg |-> m, part |-> "header"]
Body(m) == [msg |-> m, part |-> "body"]
PartsOf(m, str) == SelectSeq(str, LAMBDA x : x.msg = m)

\* the thread begins an operation: what it is and what the streams were
BeginOp(t, name) ==
  [op |-> name, msg |-> nOps + 1, rc |-> rClosed, wc |-> wClosed, failed |-> {}]

\* the operation of the thread returns (exc = None) or raises exc
Finish(t, o, exc) ==
  /\ done' = Append(done,
       [op |-> o.op, msg |-> o.msg, rc |-> o.rc, wc |-> o.wc, failed |-> o.failed,
        raises |-> exc, rcAfter |-> rClosed', wcAfter |-> wClosed',
        wrote |-> PartsOf(o.msg, stream')])
  /\ cpc' = [cpc EXCEPT ![t] = "idle"]
  /\ cop' = [cop EXCEPT ![t] = NoOp]

\* JsonRpc.send_data -> JsonWriter.write: if self._writer.closed: raise
SendData(t) ==
  /\ cpc[t] = "idle" /\ nOps < MaxOps
  /\ nOps' = nOps + 1
  /\ UNCHANGED <<rClosed, wClosed, wLock, stream, mgrVars, runVars, frameVars, stopVars, supVars, lateVars>>
  /\ IF wClosed
     THEN Finish(t, BeginOp(t, "send_data"), "StreamClosedException")
     ELSE /\ cpc' = [cpc EXCEPT ![t] = "wLock"]
          /\ cop' = [cop EXCEPT ![t] = BeginOp(t, "send_data")]
          /\ UNCHANGED done

\* JsonWriter.write: with self._lock: ... self._writer.write(...) the first
\* part of the frame reaches the stream; a closed stream raises ValueError
WriteHeader(t) ==
  /\ cpc[t] = "wLock"
  /\ LockFree(wLock)
  /\ UNCHANGED <<rClosed, wClosed, nOps, mgrVars, runVars, frameVars, stopVars, supVars, lateVars>>
  /\ IF wClosed
     THEN /\ UNCHANGED <<wLock, stream>>
          /\ Finish(t, cop[t], "ValueError")
     ELSE /\ wLock' = t
          /\ stream' = Append(stream, Header(cop[t].msg))
          /\ cpc' = [cpc EXCEPT ![t] = "wBody"]
          /\ UNCHANGED <<cop, done>>

\* JsonWriter.write: the rest of the frame reaches the stream with
\* self._writer.flush(); the lock is released
WriteBody(t) ==
  /\ cpc[t] = "wBody"
  /\ stream' = Append(stream, Body(cop[t].msg))
  /\ wLock' = IF wLock = t THEN 0 ELSE wLock
  /\ UNCHANGED <<rClosed, wClosed, nOps, mgrVars, runVars, frameVars, stopVars, supVars, lateVars>>
  /\ Finish(t, cop[t], None)

\* JsonWriter.close(), called on the writer itself
WriterClose(t, fails) ==
  /\ cpc[t] = "idle" /\ nOps < MaxOps
  /\ LockFree(wLock)
  /\ nOps' = nOps + 1
  /\ wClosed' = TRUE
  /\ UNCHANGED <<rClosed, wLock, stream, mgrVars, runVars, frameVars, stopVars, supVars, lateVars>>
  /\ Finish(t, BeginOp(t, "writer_close"), CloseOutcome(wClosed, fails))

\* JsonReader.close(), called on the reader itself
ReaderClose(t, fails) ==
  /\ cpc[t] = "idle" /\ nOps < MaxOps
  /\ nOps' = nOps + 1
  /\ rClosed' = TRUE
  /\ UNCHANGED <<wClosed, wLock, stream, mgrVars, runVars, frameVars, stopVars, supVars, lateVars>>
  /\ Finish(t, BeginOp(t, "reader_close"), CloseOutcome(rClosed, fails))

\* JsonRpc.close: try: self._reader.close() except: pass
RpcCloseReader(t, fails) ==
  LET exc == CloseOutcome(rClosed, fails)
      o == [BeginOp(t, "rpc_close") EXCEPT
              !.failed = IF exc = None THEN {} ELSE {"reader"}]
  IN /\ cpc[t] = "idle" /\ nOps < MaxOps
     /\ nOps' = nOps + 1
     /\ rClosed' = TRUE
     /\ UNCHANGED <<wClosed, wLock, stream, mgrVars, runVars, frameVars, stopVars, supVars, lateVars>>
     /\ IF Swallow(exc) # None
        THEN Finish(t, o, Swallow(exc))
        ELSE /\ cpc' = [cpc EXCEPT ![t] = "cWriter"]
             /\ cop' = [cop EXCEPT ![t] = o]
             /\ UNCHANGED done

\* JsonRpc.close: try: self._writer.close() except: pass
RpcCloseWriter(t, fails) ==
  LET exc == CloseOutcome(wClosed, fails)
      o == [cop[t] EXCEPT !.failed = IF exc = None THEN @ ELSE @ \cup {"writer"}]
  IN /\ cpc[t] = "cWriter"
     /\ LockFree(wLock)
     /\ wClosed' = TRUE
     /\ UNCHANGED <<rClosed, wLock, stream, nOps, mgrVars, runVars, frameVars, stopVars, supVars, lateVars>>
     /\ Finish(t, o, Swallow(exc))

\* JsonRpc.receive_data -> JsonReader.read: if self._reader.closed: raise;
\* the read of an open reader is the subject of SpecFrame
ReadCalled(t) ==
  /\ cpc[t] = "idle" /\ nOps < MaxOps
  /\ nOps' = nOps + 1
  /\ UNCHANGED <<rClosed, wClosed, wLock, stream, mgrVars, runVars, frameVars, stopVars, supVars, lateVars>>
  /\ Finish(t, BeginOp(t, "read"), IF rClosed THEN "StreamClosedException" ELSE None)

NextChan ==
  \/ \E t \in Threads : SendData(t)
  \/ \E t \in Threads : WriteHeader(t)
  \/ \E t \in Threads : WriteBody(t)
  \/ \E t \in Threads, fails \in BOOLEAN : WriterClose(t, fails)
  \/ \E t \in Threads, fails \in BOOLEAN : ReaderClose(t, fails)
  \/ \E t \in Threads, fails \in BOOLEAN : RpcCloseReader(t, fails)
  \/ \E t \in Threads, fails \in BOOLEAN : RpcCloseWriter(t, fails)
  \/ \E t \in Threads : ReadCalled(t)

SpecChan == Init /\ [][NextChan]_vars

\* ------------------------------------------------------ stop_all_processes
\* The shutdown specification: some workspaces are registered, each with a
\* live subprocess whose monitor waits in proc.wait(); the host calls
\* stop_all_processes (shutdown_json_rpc) while the subprocesses may exit and
\* their monitors run.
\* the id of the exit message stands for str(uuid.uuid4())
ExitMsg == 0

RegisteredWorkspaces == {w \in Workspaces : rpc[w] # NoProc}

InitStop ==
  /\ IdleRun /\ IdleFrame /\ IdleRest
  /\ \E R \in SUBSET (Workspaces \cap Procs) :
       /\ processes = [w \in Workspaces |-> IF w \in R THEN w ELSE NoProc]
       /\ rpc = [w \in Workspaces |-> IF w \in R THEN w ELSE NoProc]
       /\ st = [p \in Procs |-> IF p \in R THEN "alive" ELSE "none"]
       /\ mon = [p \in Procs |-> IF p \in R THEN "wait" ELSE "none"]
       /\ procWs = [p \in Procs |-> IF p \in R THEN p ELSE 0]
  /\ lock = NoProc /\ queue = <<>> /\ others = 0
  /\ closed = [p \in Procs |-> FALSE]
  /\ pending = [p \in Procs |-> <<>>]
  /\ pc = [t \in Threads |-> "idle"]
  /\ callWs = [t \in Threads |-> 0]
  /\ res = [t \in Threads |-> NoProc]
  /\ myProc = [t \in Threads |-> NoProc]
  /\ msgId = [t \in Threads |-> 0]
  /\ outcome = [t \in Threads |-> "none"]
  /\ nextId = 0
  /\ exitedAtCall = [t \in Threads |-> {}]
  /\ overlap = [w \in Workspaces |-> FALSE]

\* stop_all_processes is entered: for i in self._rpc.values() creates the
\* iterator, which remembers the size of the dict
StopBegins ==
  /\ sPc = "idle"
  /\ sPc' = "iter"
  /\ sIter' = [size |-> Cardinality(RegisteredWorkspaces), pos |-> 1]
  /\ sRegistered' = RegisteredWorkspaces
  /\ UNCHANGED <<sSent, poolShut, mgrVars, runVars, frameVars, chanVars, supVars, lateVars>>

\* the iterator finds the dict of another size than when it was created
SizeChanged(it) == Cardinality(RegisteredWorkspaces) # it.size

\* what i.send_data raises: StreamClosedException on a closed writer,
\* BrokenPipeError when the subprocess has exited, else nothing
SendRaises(p) ==
  IF closed[p] THEN "StreamClosedException"
  ELSE IF st[p] = "exited" THEN "BrokenPipeError"
  ELSE None

\* one turn of the loop: the iterator raises RuntimeError if the dict has
\* changed size, ends the loop after the last key, or yields the next
\* connection, to which the exit message is sent inside try / except: pass
StopSends ==
  LET left == {w \in RegisteredWorkspaces : w >= sIter.pos}
      w == CHOOSE x \in left : \A y \in left : x <= y
  IN /\ sPc = "iter"
     /\ IF SizeChanged(sIter)
        THEN /\ sPc' = "raised"
             /\ UNCHANGED <<sIter, sSent, pending>>
        ELSE IF left = {}
        THEN /\ sPc' = "shutdown"
             /\ UNCHANGED <<sIter, sSent, pending>>
        ELSE /\ sIter' = [sIter EXCEPT !.pos = w + 1]
             /\ sSent' = Append(sSent, [ws |-> w, proc |-> rpc[w], raises |-> SendRaises(rpc[w])])
             /\ pending' = [pending EXCEPT ![rpc[w]] =
                              IF SendRaises(rpc[w]) = None THEN Append(@, ExitMsg) ELSE @]
             /\ UNCHANGED sPc
     /\ UNCHANGED <<sRegistered, poolShut, runVars, frameVars, chanVars, supVars, lateVars>>
     /\ UNCHANGED <<processes, rpc, lock, queue, others, mon, st, procWs, closed,
                    pc, callWs, res, myProc, msgId, outcome, nextId,
                    exitedAtCall, overlap>>

\* self._thread_pool.shutdown(wait=False), and stop_all_processes returns;
\* the monitors that run already keep running
StopShutsDown ==
  /\ sPc = "shutdown"
  /\ poolShut' = TRUE
  /\ sPc' = "returned"
  /\ UNCHANGED <<sIter, sSent, sRegistered, mgrVars, runVars, frameVars, chanVars, supVars, lateVars>>

NextStop ==
  \/ StopBegins
  \/ StopSends
  \/ StopShutsDown
  \/ \E p \in Procs, k \in 0..NumThreads : ProcessExits(p, k)
  \/ \E p \in Procs : MonitorDeletes(p)
  \/ \E p \in Procs : MonitorPops(p)

SpecStop == InitStop /\ [][NextStop]_vars

\* The late-call specification: one thread of the host calls
\* run_over_json_rpc while another calls stop_all_processes, before, during
\* or after those calls.
NextLate ==
  \/ NextPool
  \/ StopBegins
  \/ StopSends
  \/ StopShutsDown

SpecLate == Init /\ [][NextLate]_vars

\* The lifetime specification: the language server handles the shutdown
\* request and the exit notification of its client, one after the other on
\* its event loop, and the interpreter exits; each of the three calls
\* stop_all_processes, which then runs as in the shutdown specification.
\* shutdown_json_rpc(): _process_manager.stop_all_processes() is entered
StopCalled(stage) ==
  /\ sPc \in {"idle", "returned", "raised"}
  /\ sPc' = "iter"
  /\ sIter' = [size |-> Cardinality(RegisteredWorkspaces), pos |-> 1]
  /\ sRegistered' = RegisteredWorkspaces
  /\ nStops' = nStops + 1
  /\ host' = stage
  /\ UNCHANGED <<sSent, poolShut, gets, watchVars, mgrVars, runVars, frameVars, chanVars, supVars>>

\* @LSP_SERVER.feature(lsp.SHUTDOWN) on_shutdown
OnShutdown == host = "running" /\ StopCalled("shutdown")

\* @LSP_SERVER.feature(lsp.EXIT) on_exit; a client may send exit without
\* a shutdown request before it
OnExit == host \in {"running", "shutdown"} /\ StopCalled("exit")

\* the interpreter exits and runs the function registered with
\* atexit.register(_process_manager.stop_all_processes)
AtExit == host # "atexit" /\ StopCalled("atexit")

NextHost ==
  \/ OnShutdown
  \/ OnExit
  \/ AtExit
  \/ StopSends
  \/ StopShutsDown
  \/ \E p \in Procs, k \in 0..NumThreads : ProcessExits(p, k)
  \/ \E p \in Procs : MonitorDeletes(p)
  \/ \E p \in Procs : MonitorPops(p)

SpecHost == InitStop /\ [][NextHost]_vars

\* ------------------------------------------------- suppress_stdout_stderr
\* The suppression specification: the threads of the server (the LSP command
\* handlers and the watchdog observer) enter and leave
\* `with suppress_stdout_stderr():` blocks; sys.stdout and sys.stderr are
\* attributes of the one sys module.
otherSup == <<mgrVars, runVars, frameVars, chanVars, stopVars, lateVars>>

\* with open(os.devnull, "w") as fnull:
OpenDevnull(t) ==
  /\ supPc[t] = "out" /\ nBlocks < MaxBlocks
  /\ nBlocks' = nBlocks + 1
  /\ fnull' = [fnull EXCEPT ![t] = nBlocks + 1]
  /\ fnullState' = [fnullState EXCEPT ![nBlocks + 1] = "open"]
  /\ supPc' = [supPc EXCEPT ![t] = "saveOut"]
  /\ supOverlap' = (supOverlap \/ \E u \in Threads \ {t} : supPc[u] # "out")
  /\ UNCHANGED <<sysStdout, sysStderr, originalStdout, originalStderr, otherSup>>

\* original_stdout = sys.stdout
SaveStdout(t) ==
  /\ supPc[t] = "saveOut"
  /\ originalStdout' = [originalStdout EXCEPT ![t] = sysStdout]
  /\ supPc' = [supPc EXCEPT ![t] = "saveErr"]
  /\ UNCHANGED <<sysStdout, sysStderr, fnullState, fnull, originalStderr, nBlocks, supOverlap, otherSup>>

\* original_stderr = sys.stderr
SaveStderr(t) ==
  /\ supPc[t] = "saveErr"
  /\ originalStderr' = [originalStderr EXCEPT ![t] = sysStderr]
  /\ supPc' = [supPc EXCEPT ![t] = "setOut"]
  /\ UNCHANGED <<sysStdout, sysStderr, fnullState, fnull, originalStdout, nBlocks, supOverlap, otherSup>>

\* sys.stdout = fnull
SetStdout(t) ==
  /\ supPc[t] = "setOut"
  /\ sysStdout' = fnull[t]
  /\ supPc' = [supPc EXCEPT ![t] = "setErr"]
  /\ UNCHANGED <<sysStderr, fnullState, fnull, originalStdout, originalStderr, nBlocks, supOverlap, otherSup>>

\* sys.stderr = fnull; try: yield
SetStderr(t) ==
  /\ supPc[t] = "setErr"
  /\ sysStderr' = fnull[t]
  /\ supPc' = [supPc EXCEPT ![t] = "body"]
  /\ UNCHANGED <<sysStdout, fnullState, fnull, originalStdout, originalStderr, nBlocks, supOverlap, otherSup>>

\* the body of the with statement ends, normally or by an exception;
\* finally: sys.stdout = original_stdout
RestoreStdout(t, byException) ==
  /\ supPc[t] = "body"
  /\ sysStdout' = originalStdout[t]
  /\ supPc' = [supPc EXCEPT ![t] = "restoreErr"]
  /\ UNCHANGED <<sysStderr, fnullState, fnull, originalStdout, originalStderr, nBlocks, supOverlap, otherSup>>

\* sys.stderr = original_stderr
RestoreStderr(t) ==
  /\ supPc[t] = "restoreErr"
  /\ sysStderr' = originalStderr[t]
  /\ supPc' = [supPc EXCEPT ![t] = "close"]
  /\ UNCHANGED <<sysStdout, fnullState, fnull, originalStdout, originalStderr, nBlocks, supOverlap, otherSup>>

\* the with statement closes fnull and the block is left
CloseDevnull(t) ==
  /\ supPc[t] = "close"
  /\ fnullState' = [fnullState EXCEPT ![fnull[t]] = "closed"]
  /\ fnull' = [fnull EXCEPT ![t] = 0]
  /\ originalStdout' = [originalStdout EXCEPT ![t] = Unset]
  /\ originalStderr' = [originalStderr EXCEPT ![t] = Unset]
  /\ supPc' = [supPc EXCEPT ![t] = "out"]
  /\ UNCHANGED <<sysStdout, sysStderr, nBlocks, supOverlap, otherSup>>

NextSuppress ==
  \/ \E t \in Threads : OpenDevnull(t)
  \/ \E t \in Threads : SaveStdout(t)
  \/ \E t \in Threads : SaveStderr(t)
  \/ \E t \in Threads : SetStdout(t)
  \/ \E t \in Threads : SetStderr(t)
  \/ \E t \in Threads, byException \in BOOLEAN : RestoreStdout(t, byException)
  \/ \E t \in Threads : RestoreStderr(t)
  \/ \E t \in Threads : CloseDevnull(t)

SpecSuppress == Init /\ [][NextSuppress]_vars

\* -------------------------------------------------- get_or_start_json_rpc
\* The facade specification: the threads of the host call
\* get_or_start_json_rpc(workspace, ...) again and again, and each call
\* returns the connection it found or started.
MaxGets == 3         \* calls of get_or_start_json_rpc

\* the call of the thread that has not returned yet: its place in gets
Running(t) ==
  LET mine == {i \in 1..Len(gets) : gets[i].thread = t}
  IN CHOOSE i \in mine : \A j \in mine : j <= i

\* a host thread enters get_or_start_json_rpc(workspace, interpreter, cwd)
CallGet(t, w) ==
  /\ pc[t] = "idle"
  /\ Len(gets) < MaxGets
  /\ pc' = [pc EXCEPT ![t] = "get1"]
  /\ callWs' = [callWs EXCEPT ![t] = w]
  /\ outcome' = [outcome EXCEPT ![t] = "running"]
  /\ exitedAtCall' = [exitedAtCall EXCEPT ![t] = {p \in Exited : Registered(p)}]
  /\ overlap' = [overlap EXCEPT ![w] =
                   @ \/ \E u \in Threads \ {t} : InCall(u) /\ callWs[u] = w]
  /\ gets' = Append(gets,
       [ws |-> w, thread |-> t, returned |-> FALSE, conn |-> NoProc,
        after |-> {i \in 1..Len(gets) : gets[i].returned}, exited |-> {}])
  /\ UNCHANGED <<processes, rpc, lock, queue, others, mon, st, procWs, closed,
                 pending, res, myProc, msgId, nextId>>
  /\ UNCHANGED <<runVars, frameVars, chanVars, stopVars, supVars, host, nStops, watchVars>>

\* get_or_start_json_rpc: return res, with a connection in it
GetReturns(t) ==
  /\ pc[t] = "send"
  /\ gets' = [gets EXCEPT ![Running(t)] =
                [@ EXCEPT !.returned = TRUE, !.conn = res[t], !.exited = Exited]]
  /\ Return(t, "ok")
  /\ UNCHANGED <<processes, rpc, lock, queue, others, mon, st, procWs, closed,
                 pending, nextId, overlap>>
  /\ UNCHANGED <<runVars, frameVars, chanVars, stopVars, supVars, host, nStops, watchVars>>

NextGet ==
  \/ \E t \in Threads, w \in Workspaces : CallGet(t, w)
  \/ \E t \in Threads : GetFirst(t)
  \/ \E t \in Threads : Spawn(t)
  \/ \E t \in Threads : SpawnFails(t)
  \/ \E t \in Threads : RegisterProcess(t)
  \/ \E t \in Threads : RegisterRpc(t)
  \/ \E t \in Threads : SubmitMonitor(t)
  \/ \E t \in Threads : GetSecond(t)
  \/ \E t \in Threads : GetReturns(t)
  \/ \E p \in Procs, k \in 0..NumThreads : ProcessExits(p, k)
  \/ \E p \in Procs : MonitorStarts(p)
  \/ \E p \in Procs : MonitorDeletes(p)
  \/ \E p \in Procs : MonitorPops(p)

SpecGet == Init /\ [][NextGet]_vars

\* ------------------------------------------------------- ZenConfigWatcher
\* The watcher specification: the global config file is rewritten, the
\* watchdog observer thread calls on_modified for each change, and each
\* debounce Timer that is not cancelled in time runs process_event on a
\* thread of its own.
otherWatch == <<gets, host, nStops, mgrVars, runVars, frameVars, chanVars,
                stopVars, supVars>>
\* the callback of the timer is between its start and its end
InCallback(i) == timer[i].state \in {"compare", "notify", "store"}

\* the file is written with store.url = u and on_modified runs:
\* if self._timer is not None: self._timer.cancel(), which stops a timer
\* that has not fired yet; self._timer = Timer(...); self._timer.start()
OnModified(u) ==
  /\ selfTimer < MaxEvents
  /\ fileUrl' = u
  /\ selfTimer' = selfTimer + 1
  /\ timer' = [i \in Timers |->
       IF i = selfTimer + 1 THEN [state |-> "armed", newUrl |-> ""]
       ELSE IF i = selfTimer /\ timer[i].state = "armed"
            THEN [timer[i] EXCEPT !.state = "cancelled"]
       ELSE timer[i]]
  /\ UNCHANGED <<lastKnownUrl, notes, watchOverlap, otherWatch>>

\* the interval of the timer has passed: process_event ->
\* process_config_change opens the file and reads new_url
ProcessEvent(i) ==
  /\ timer[i].state = "armed"
  /\ timer' = [timer EXCEPT ![i] = [state |-> "compare", newUrl |-> fileUrl]]
  /\ watchOverlap' = (watchOverlap \/ \E j \in Timers \ {i} : InCallback(j))
  /\ UNCHANGED <<fileUrl, lastKnownUrl, selfTimer, notes, otherWatch>>

\* url_changed = new_url != self.last_known_url; if url_changed:
CompareUrl(i) ==
  /\ timer[i].state = "compare"
  /\ timer' = [timer EXCEPT ![i].state =
                 IF timer[i].newUrl # lastKnownUrl THEN "notify" ELSE "done"]
  /\ UNCHANGED <<fileUrl, lastKnownUrl, selfTimer, notes, watchOverlap, otherWatch>>

\* self.LSP_SERVER.send_custom_notification(ZENML_SERVER_CHANGED, ...)
SendServerChanged(i) ==
  /\ timer[i].state = "notify"
  /\ notes' = Append(notes, timer[i].newUrl)
  /\ timer' = [timer EXCEPT ![i].state = "store"]
  /\ UNCHANGED <<fileUrl, lastKnownUrl, selfTimer, watchOverlap, otherWatch>>

\* self.last_known_url = new_url, and the callback ends
StoreUrl(i) ==
  /\ timer[i].state = "store"
  /\ lastKnownUrl' = timer[i].newUrl
  /\ timer' = [timer EXCEPT ![i].state = "done"]
  /\ UNCHANGED <<fileUrl, selfTimer, notes, watchOverlap, otherWatch>>

NextWatch ==
  \/ \E u \in Urls : OnModified(u)
  \/ \E i \in Timers : ProcessEvent(i)
  \/ \E i \in Timers : CompareUrl(i)
  \/ \E i \in Timers : SendServerChanged(i)
  \/ \E i \in Timers : StoreUrl(i)

SpecWatch == Init /\ [][NextWatch]_vars

\* ------------------------------------------------------------------- claims
SpawnedFor(w) == {p \in Procs : st[p] # "none" /\ procWs[p] = w}
\* the thread has returned from get_or_start_json_rpc with a connection
HasConnection(t) == pc[t] \in {"send", "recv"}

\* C1: when the threads call get_or_start_json_rpc for a workspace and no
\* subprocess has exited, then once they all have returned exactly one
\* subprocess was spawned for the workspace, it is the registered one, and
\* every caller holds its connection.
C1_OneSubprocessPerWorkspace ==
  \A w \in Workspaces :
    (/\ \A p \in SpawnedFor(w) : st[p] = "alive"
     /\ \A t \in Threads : callWs[t] = w => HasConnection(t))
    => /\ Cardinality(SpawnedFor(w)) <= 1
       /\ \A t \in Threads : callWs[t] = w => res[t] = rpc[w]

\* C2: a call that started after the registered subprocess exited is never
\* handed the connection of that subprocess.
C2_NoConnectionOfExitedProcess ==
  \A t \in Threads : HasConnection(t) => res[t] \notin exitedAtCall[t]

\* C3: a registered subprocess that has exited is eventually unregistered
\* and its connection closed.
C3_ExitedIsReclaimed ==
  \A p \in Procs :
    (st[p] = "exited" /\ Registered(p)) ~> (~Registered(p) /\ closed[p])

StartInProgress(w) ==
  \E t \in Threads : callWs[t] = w /\ pc[t] \in {"spawn", "regProc", "regRpc", "submit"}
MonitorOutstanding(w) == \E p \in SpawnedFor(w) : mon[p] # "done"
DeadBinding(w) ==
  rpc[w] # NoProc /\ (st[rpc[w]] = "exited" \/ closed[rpc[w]])
\* the workspace maps to a dead connection, and no registration and no
\* monitor is left that would change the entry
PermanentlyDead(w) ==
  DeadBinding(w) /\ ~StartInProgress(w) /\ ~MonitorOutstanding(w)

\* C4: no reachable state leaves a workspace permanently bound to a dead or
\* closed connection.
C4_NoPermanentDeadBinding == \A w \in Workspaces : ~PermanentlyDead(w)

\* a permanently dead binding is permanent: no step of the program undoes it
DeadBindingStays ==
  [][\A w \in Workspaces : PermanentlyDead(w) => PermanentlyDead(w)']_vars

\* C6 (as claimed): no connection ever has two requests sent whose responses
\* are both unread.
C6_AtMostOneOutstanding == \A c \in Procs : Len(pending[c]) <= 1

\* C6 (amended): while the calls for a workspace have never overlapped, no
\* connection of the workspace has two requests sent whose responses are
\* both unread.
C6_SerialCallsOneOutstanding ==
  \A c \in Procs :
    (st[c] # "none" /\ ~overlap[procWs[c]]) => Len(pending[c]) <= 1

\* the second of two calls that did not overlap has its request outstanding
\* on the connection the first call used
C6_Witness ==
  \E t \in Threads, u \in Threads :
    /\ pc[t] = "recv" /\ msgId[t] = 2 /\ outcome[u] = "ok"
    /\ Spawned = {res[t]}
    /\ ~overlap[callWs[t]]
    /\ pending[res[t]] = <<2>>

Mapped == runResult # NotRun
HasId(d) == "id" \in DOMAIN d

\* C5: a response whose id differs from the id of the request is answered
\* with an RpcRunResult of empty stdout, the invalid-result text as stderr
\* and no exception; nothing of the response is mapped and nothing is raised.
C5_MismatchIsInvalidResult ==
  (Mapped /\ HasId(data) /\ data["id"] # reqId)
    => /\ runResult.raises = None
       /\ runResult.stdout = ""
       /\ runResult.stderr = InvalidResultText
       /\ runResult.exception = None

\* a mismatched response that carries a result, an error and the exception flag
C5_Witness ==
  /\ Mapped /\ HasId(data) /\ data["id"] # reqId
  /\ DOMAIN data = {"id", "result", "error", "exception"}
  /\ data["result"] = "out" /\ data["exception"]

\* C7: a response whose id matches is returned without raising, with
\* stdout = result (or "" when absent) and with error going to exception when
\* the exception flag is true, to stderr when it is false or absent, and
\* stderr = "" with no exception when there is no error.
C7_MatchingResponseMapping ==
  (Mapped /\ HasId(data) /\ data["id"] = reqId)
    => /\ runResult.raises = None
       /\ runResult.stdout = (IF "result" \in DOMAIN data THEN data["result"] ELSE "")
       /\ ("error" \in DOMAIN data /\ "exception" \in DOMAIN data /\ data["exception"])
            => (runResult.stderr = "" /\ runResult.exception = data["error"])
       /\ ("error" \in DOMAIN data /\ ~("exception" \in DOMAIN data /\ data["exception"]))
            => (runResult.stderr = data["error"] /\ runResult.exception = None)
       /\ ("error" \notin DOMAIN data)
            => (runResult.stderr = "" /\ runResult.exception = None)

\* a matching response with an error and the exception flag set, no result
C7_Witness ==
  /\ Mapped /\ HasId(data) /\ data["id"] = reqId
  /\ DOMAIN data = {"id", "error", "exception"}
  /\ data["exception"]
  /\ runResult = RpcRunResult("", "", "err")

\* ------------------------------------------------------- claims on the framing
\* the bytes of the i-th frame written to the pipe
FrameOf(i) ==
  SubSeq(wire, written[i].first,
         IF i < Len(written) THEN written[i + 1].first - 1 ELSE Len(wire))
\* the first read was made with the first frame in the pipe
FirstRead == Len(written) >= 1 /\ Len(readResult) >= 1 /\ readResult[1].avail >= 1

\* C8: JsonReader.read applied to what JsonWriter.write(m) wrote returns m.
C8_RoundTrip ==
  (FirstRead /\ written[1].by = "writer")
    => /\ readResult[1].status = "returned"
       /\ readResult[1].value = written[1].msg

\* where os.linesep is "\n" the round trip holds
RoundTripOnPosix == platform = "posix" => C8_RoundTrip

IsDigit(b) == b >= Ch.zero /\ b <= Ch.nine
IsNewline(b) == b = Ch.cr \/ b = Ch.lf
\* the end of the longest run of bytes in `kind` that starts at i (i - 1 if none)
RunEnd(f, i, kind(_)) ==
  LET stops == {j \in i..Len(f) : ~kind(f[j])}
  IN IF stops = {} THEN Len(f) ELSE (CHOOSE j \in stops : \A k \in stops : j <= k) - 1
\* a written frame taken apart as a receiver of the bytes sees it
Parts(f) ==
  LET d1 == Len(CONTENT_LENGTH) + 1
      d2 == RunEnd(f, d1, IsDigit)
      n2 == RunEnd(f, d2 + 1, IsNewline)
  IN [prefix |-> SubSeq(f, 1, d1 - 1),
      digits |-> SubSeq(f, d1, d2),
      newlines |-> SubSeq(f, d2 + 1, n2),
      body |-> SubSeq(f, n2 + 1, Len(f))]

\* C9: the decimal number JsonWriter.write puts after "Content-Length: " is
\* the number of UTF-8 bytes of the JSON body after the blank line, and the
\* body is the last thing written.
C9_LengthIsBodyBytes ==
  \A i \in 1..Len(written) :
    written[i].by = "writer" =>
      LET parts == Parts(FrameOf(i))
      IN /\ parts.prefix = CONTENT_LENGTH
         /\ parts.digits # <<>>
         /\ Len(SelectSeq(parts.newlines, LAMBDA b : b = Ch.lf)) = 2
         /\ DigitsValue(parts.digits, 0) = Len(parts.body)
         /\ parts.body = Utf8(JsonDumps(written[i].msg))

\* a frame written on Windows whose message has a non-ASCII character, a
\* quote and a line feed
C9_Witness ==
  /\ Len(written) >= 1 /\ written[1].by = "writer" /\ platform = "nt"
  /\ written[1].msg \in {JStr(<<Ch.eacute, Ch.lf>>), JObj(IdKey, <<Ch.quote, Ch.eacute>>)}
  /\ Len(Parts(FrameOf(1)).body) > Len(written[1].msg.val) + 2

\* the bytes the first read saw, with the extra headers of the first frame
\* taken out
WithoutExtraHeaders ==
  PeerBytes(written[1].msg, written[1].ascii, <<>>, <<>>)
    \o SubSeq(wire, written[1].first + Len(FrameOf(1)), readResult[1].avail)

\* C10: JsonReader.read gives the same outcome and leaves the same bytes
\* unread for a frame with extra header lines before or after the
\* Content-Length line as for the frame without them.
C10_ExtraHeadersIgnored ==
  (FirstRead /\ written[1].by = "peer")
    => LET plain == ReaderRead(WithoutExtraHeaders, 0, readResult[1].atEof)
           got == readResult[1]
       IN /\ got.status = plain.status
          /\ got.raises = plain.raises
          /\ got.value = plain.value
          /\ Len(PipeText(SubSeq(wire, 1, got.avail))) - got.to
               = Len(PipeText(WithoutExtraHeaders)) - (plain.pos - 1)

\* a frame with a header line on both sides of the Content-Length line has
\* been read and its message returned
C10_Witness ==
  /\ FirstRead /\ written[1].by = "peer"
  /\ written[1].before # <<>> /\ written[1].after # <<>>
  /\ readResult[1].status = "returned"
  /\ readResult[1].value = written[1].msg

\* ------------------------------------------------------ claims on end of file
\* the bytes of the header block of the frame: up to the blank line
HeaderLen(i) ==
  Len(PeerBytes(written[i].msg, written[i].ascii, written[i].before, written[i].after))
    - Len(Utf8(Dumps(written[i].msg, written[i].ascii)))
\* the pipe ended inside the first frame and read was called on it
ReadOfCutFrame ==
  /\ Len(written) = 1 /\ eof /\ Len(wire) < Len(PeerBytes(written[1].msg, written[1].ascii, <<>>, <<>>))
  /\ Len(readResult) >= 1

\* C11: when the stream ends in the middle of the header block or of the
\* body, JsonReader.read fails with StreamClosedException.
C11_EofIsStreamClosed ==
  ReadOfCutFrame => readResult[1].raises = "StreamClosedException"

\* what the code does instead: EOFError (ValueError when the number is cut
\* off) for a stream that ends in the header block, a decode error for one
\* that ends at the blank line or in the body
CutReadRaisesOtherError ==
  ReadOfCutFrame
    => /\ readResult[1].status = "raised"
       /\ readResult[1].raises \in
            {"EOFError", "ValueError", "JSONDecodeError", "UnicodeDecodeError"}
       /\ Len(wire) < HeaderLen(1) - 2 => readResult[1].raises \in {"EOFError", "ValueError"}

\* ------------------------------------------------ claims on one connection
Ended == {done[i] : i \in 1..Len(done)}
WholeFrame(m) == <<Header(m), Body(m)>>

\* C12: close() on a JsonWriter, a JsonReader or a JsonRpc that is closed
\* already raises nothing, writes nothing and leaves it closed.
C12_CloseIsIdempotent ==
  \A d \in Ended :
    /\ (d.op = "writer_close" /\ d.wc) => (d.raises = None /\ d.wcAfter /\ d.wrote = <<>>)
    /\ (d.op = "reader_close" /\ d.rc) => (d.raises = None /\ d.rcAfter /\ d.wrote = <<>>)
    /\ (d.op = "rpc_close" /\ d.rc /\ d.wc)
         => (d.raises = None /\ d.rcAfter /\ d.wcAfter /\ d.wrote = <<>>)

\* a stream once closed stays closed
ClosedStaysClosed == [][(rClosed => rClosed') /\ (wClosed => wClosed')]_vars

\* a connection whose first close failed in the operating system is closed
\* a second time, and its writer a third time
C12_Witness ==
  /\ Len(done) = 3
  /\ done[1].op = "rpc_close" /\ done[1].failed = {"reader", "writer"}
  /\ done[2].op = "rpc_close" /\ done[2].rc /\ done[2].wc /\ done[2].raises = None
  /\ done[3].op = "writer_close" /\ done[3].wc /\ done[3].raises = None

\* C13: JsonRpc.close never raises and leaves both the reader and the writer
\* closed, whichever of the two closes failed.
C13_CloseClosesBoth ==
  \A d \in Ended :
    d.op = "rpc_close" => (d.raises = None /\ d.rcAfter /\ d.wcAfter)

\* closing the reader failed, and the writer, open until then, was closed
C13_Witness ==
  \E d \in Ended :
    /\ d.op = "rpc_close" /\ "reader" \in d.failed /\ ~d.wc
    /\ d.raises = None /\ d.rcAfter /\ d.wcAfter

\* C14: a send_data that begins when the reader or the writer of the
\* connection has been closed raises StreamClosedException and writes nothing.
C14_SendFailsOnceEitherClosed ==
  \A d \in Ended :
    (d.op = "send_data" /\ (d.rc \/ d.wc))
      => (d.raises = "StreamClosedException" /\ d.wrote = <<>>)

\* what the code gives: the same for a closed writer only
SendFailsOnceWriterClosed ==
  \A d \in Ended :
    (d.op = "send_data" /\ d.wc)
      => (d.raises = "StreamClosedException" /\ d.wrote = <<>>)

\* C19: the parts of a frame are next to each other in the stream, header
\* first, however the write calls of the threads interleave.
C19_WritesAreAtomic ==
  \A i \in 1..Len(stream) :
    /\ stream[i].part = "body" => (i > 1 /\ stream[i - 1] = Header(stream[i].msg))
    /\ (stream[i].part = "header" /\ i < Len(stream))
         => stream[i + 1] = Body(stream[i].msg)

\* a send that began first waited for the lock while the whole frame of a
\* later send went out, and is now in the middle of its own frame
C19_Witness ==
  \E u \in Threads :
    /\ cpc[u] = "wBody"
    /\ Len(stream) = 3
    /\ stream[1].msg > cop[u].msg
    /\ stream[3] = Header(cop[u].msg)

\* C20: a write ends in one of two ways, whatever close does meanwhile: the
\* whole frame written and no error, or StreamClosedException and nothing
\* written; and a write or read begun on a closed channel raises
\* StreamClosedException.
C20_WriteOrStreamClosed ==
  \A d \in Ended :
    /\ d.op = "send_data"
         => \/ (d.raises = None /\ d.wrote = WholeFrame(d.msg))
            \/ (d.raises = "StreamClosedException" /\ d.wrote = <<>>)
    /\ (d.op = "send_data" /\ d.wc) => d.raises = "StreamClosedException"
    /\ (d.op = "read" /\ d.rc) => d.raises = "StreamClosedException"

\* what the code gives: no partial frame, and StreamClosedException for an
\* operation that begins after the close
WriteAfterCloseIsStreamClosed ==
  \A d \in Ended :
    /\ d.op = "send_data" => d.wrote \in {<<>>, WholeFrame(d.msg)}
    /\ (d.op = "send_data" /\ d.wc) => d.raises = "StreamClosedException"
    /\ (d.op = "read" /\ d.rc) => d.raises = "StreamClosedException"

\* ------------------------------------------------- claims on a failed spawn
\* C16: when Popen fails in start_process, the step that ends the call
\* changes neither map, submits no monitor and spawns nothing, and the call
\* ends by raising.
C16_FailedSpawnRegistersNothing ==
  [][\A t \in Threads :
       (pc[t] = "spawn" /\ pc'[t] = "idle")
         => /\ processes' = processes /\ rpc' = rpc
            /\ queue' = queue /\ mon' = mon
            /\ st' = st
            /\ outcome'[t] = "raised"]_vars

\* a call has raised and no subprocess was ever spawned: its Popen failed,
\* and the maps and the pool are as they were
C16_Witness ==
  /\ \E t \in Threads : pc[t] = "idle" /\ outcome[t] = "raised"
  /\ Spawned = {}
  /\ \A w \in Workspaces : processes[w] = NoProc /\ rpc[w] = NoProc
  /\ queue = <<>>

\* ------------------------------------------------------- claims on shutdown
StopEnded == sPc \in {"returned", "raised"}
Attempted == {sSent[i].ws : i \in 1..Len(sSent)}

\* C15: once stop_all_processes has ended it has attempted to send the exit
\* message to every workspace that was registered when it was called,
\* whatever sends failed, and it has returned without raising.
C15_ExitSentToEveryWorkspace ==
  StopEnded => (sPc = "returned" /\ Attempted = sRegistered)

\* what the code gives: while the loop runs, a failed send does not stop it
FailedSendDoesNotStopLoop ==
  [][(sPc = "iter" /\ sSent' # sSent) => sPc' = "iter"]_vars

\* C17: when stop_all_processes has returned, no workspace maps to a
\* connection any more, and every connection that was registered is closed.
C17_NothingOpenAfterShutdown ==
  sPc = "returned"
    => /\ RegisteredWorkspaces = {}
       /\ \A p \in Procs : st[p] # "none" => closed[p]

\* ----------------------------------------------- claims on the suppression
AllBlocksExited == nBlocks > 0 /\ \A t \in Threads : supPc[t] = "out"

\* C18: when every suppress_stdout_stderr block has been left, sys.stdout
\* and sys.stderr are the original streams again.
C18_StreamsRestored ==
  AllBlocksExited => (sysStdout = OrigStdout /\ sysStderr = OrigStderr)

\* what the code gives: the streams are restored when no block was entered
\* while another thread was inside one
RestoredAfterSerialBlocks ==
  (AllBlocksExited /\ ~supOverlap) => (sysStdout = OrigStdout /\ sysStderr = OrigStderr)

\* the state the overlap leaves behind: every block has been left and
\* sys.stdout is a devnull file that is already closed
StdoutLeftClosed ==
  AllBlocksExited /\ sysStdout \in Files /\ fnullState[sysStdout] = "closed"

\* ------------------------------------------- claims on sequences of frames
\* the characters the reader's stream makes of the pipe up to the end of the
\* i-th frame (0: the start of the pipe)
TextEnd(i) ==
  IF i = 0 THEN 0
  ELSE Len(PipeText(SubSeq(wire, 1, written[i].first + Len(FrameOf(i)) - 1)))
\* the i-th read was made with the i-th frame in the pipe, at its first byte
ReadAtFrame(i) ==
  /\ i \in 1..Len(readResult) /\ i <= Len(written)
  /\ readResult[i].avail >= written[i].first + Len(FrameOf(i)) - 1
  /\ readResult[i].from = TextEnd(i - 1)
\* the read went on to the body: it returned, or json.loads raised
ReadBodyDone(i) ==
  readResult[i].status = "returned" \/ readResult[i].raises = "JSONDecodeError"

\* C21: a read that starts at a frame with a body and gets past its header
\* block consumes exactly the bytes of that body, so that the stream is left
\* at the first byte of the next frame.
C21_BodyIsExactlyNBytes ==
  \A i \in 1..Len(readResult) :
    (ReadAtFrame(i) /\ written[i].by = "peer" /\ written[i].msg # NoValue
       /\ ReadBodyDone(i))
      => readResult[i].to = TextEnd(i)

\* what the code gives: the body read is exact when the body is ASCII
BodyIsExactWhenAscii ==
  \A i \in 1..Len(readResult) :
    (ReadAtFrame(i) /\ written[i].by = "peer" /\ written[i].msg # NoValue
       /\ ReadBodyDone(i)
       /\ FrameOf(i) = PeerBytes(written[i].msg, TRUE, <<>>, <<>>))
      => readResult[i].to = TextEnd(i)

\* the read of a frame whose body has a two-byte character took the first
\* character of the next frame with it
TookNextFrameByte ==
  /\ ReadAtFrame(1) /\ Len(written) = 2 /\ written[1].by = "peer"
  /\ written[1].msg = JStr(<<Ch.eacute>>) /\ ~written[1].ascii
  /\ readResult[1].to = TextEnd(1) + 1

\* C28: the i-th read of a sequence of frames consumes exactly the i-th
\* frame and returns its body; a frame that declares Content-Length 0 ends
\* at its blank line.
C28_ReadsFollowFrames ==
  \A i \in 1..Len(readResult) :
    ReadAtFrame(i)
      => /\ readResult[i].to = TextEnd(i)
         /\ written[i].msg # NoValue
              => (readResult[i].status = "returned"
                  /\ readResult[i].value = written[i].msg)

\* what the code gives: frames with an ASCII body of positive length are
\* read one by one, in order, where os.linesep is "\n"
AsciiFramesReadInOrder ==
  (platform = "posix"
     /\ \A k \in 1..Len(written) :
          written[k].msg # NoValue
            /\ FrameOf(k) = PeerBytes(written[k].msg, TRUE, <<>>, <<>>))
    => C28_ReadsFollowFrames

\* the read of a frame that declares Content-Length 0 returned the body of
\* the frame after it
EmptyFrameSwallowed ==
  /\ ReadAtFrame(1) /\ Len(written) = 2
  /\ written[1].msg = NoValue /\ written[2].msg # NoValue
  /\ readResult[1].status = "returned"
  /\ readResult[1].value = written[2].msg
  /\ readResult[1].to = TextEnd(2)

\* --------------------------------------------- claims on the workspace map
\* the step writes the workspace map
MapWritten == processes' # processes \/ rpc' # rpc
\* the step is one of the monitor of p, made with _lock in its hands
MonitorStepUnderLock(p) == mon'[p] # mon[p] /\ (lock = p \/ lock' = p)

\* C22: every access to the workspace map is made while holding _lock: no
\* step writes _processes or _rpc unless the one that makes it holds the lock.
C22_MapAccessUnderLock ==
  [][MapWritten => \E p \in Procs : MonitorStepUnderLock(p)]_vars

\* what the code gives: the monitor writes the map under the lock, and
\* get_json_rpc reads it only when no monitor holds the lock
MonitorAndGetUnderLock ==
  [][/\ \A p \in Procs : (MapWritten /\ mon'[p] # mon[p]) => MonitorStepUnderLock(p)
     /\ \A t \in Threads :
          (pc[t] \in {"get1", "get2"} /\ pc'[t] # pc[t]) => lock = NoProc]_vars

\* start_process is about to write the map while a monitor holds the lock
WriteWhileLocked ==
  \E t \in Threads : pc[t] \in {"regProc", "regRpc"} /\ lock # NoProc

\* C25: the monitor of subprocess p removes and closes only the entry of p:
\* its steps leave the map entry and the connection of any other subprocess
\* as they are.
C25_MonitorTouchesOwnEntryOnly ==
  [][\A p \in Procs :
       mon'[p] # mon[p]
         => /\ \A w \in Workspaces :
                 /\ processes'[w] # processes[w] => processes[w] = p
                 /\ rpc'[w] # rpc[w] => rpc[w] = p
            /\ \A q \in Procs \ {p} : closed'[q] = closed[q]]_vars

\* what the code gives: the monitor touches only the entry of the workspace
\* it was started for, whichever subprocess is registered there
MonitorTouchesOwnWorkspaceOnly ==
  [][\A p \in Procs :
       mon'[p] # mon[p]
         => \A w \in Workspaces \ {procWs[p]} :
              processes'[w] = processes[w] /\ rpc'[w] = rpc[w]]_vars

\* the connection of a live subprocess has been closed and unregistered
\* by the monitor of another one
LiveConnectionClosed ==
  \E q \in Procs : st[q] = "alive" /\ closed[q] /\ ~Registered(q)

\* no registration and no removal is going on for the workspace
Quiet(w) ==
  /\ ~StartInProgress(w)
  /\ \A p \in SpawnedFor(w) : mon[p] # "pop"

\* C30: when no registration and no monitor removal is in progress, the
\* process map and the connection map have the same keys, and the connection
\* of a workspace is the one wired to the subprocess stored for it.
C30_MapsAgree ==
  \A w \in Workspaces : Quiet(w) => processes[w] = rpc[w]

\* what the code gives: the maps agree while the calls for the workspace
\* have never overlapped
MapsAgreeWhenSerial ==
  \A w \in Workspaces : (Quiet(w) /\ ~overlap[w]) => processes[w] = rpc[w]

\* two subprocesses live, the workspace maps to one and its connection is
\* the other's
CrossedEntry ==
  \E w \in Workspaces :
    /\ Quiet(w) /\ processes[w] # NoProc /\ rpc[w] # NoProc
    /\ processes[w] # rpc[w]
    /\ st[processes[w]] = "alive" /\ st[rpc[w]] = "alive"

\* ------------------------------------------ claims on get_or_start_json_rpc
\* the first lookup of a call finds an entry for the workspace
FoundEntry(t) == pc[t] = "get1" /\ pc'[t] # "get1" /\ rpc[callWs[t]] # NoProc
\* call j began after call i had returned, for the same workspace, and no
\* subprocess exited between the two returns
Consecutive(i, j) ==
  /\ i \in gets[j].after /\ gets[j].returned
  /\ gets[i].ws = gets[j].ws
  /\ gets[i].exited = gets[j].exited

\* what the first lookup does when it finds an entry: it hands that
\* connection to the caller, spawns nothing and leaves the map as it is
ExistingEntryReturnedAsIs ==
  [][\A t \in Threads :
       FoundEntry(t)
         => /\ pc'[t] = "send" /\ res'[t] = rpc[callWs[t]]
            /\ UNCHANGED <<processes, rpc, st>>]_vars

\* C23: a call that finds an entry for the workspace returns the connection
\* of that entry without spawning and without changing the map, and
\* consecutive calls for a workspace with no subprocess exit in between
\* return the same connection.
C23_ExistingConnectionReused ==
  [][/\ \A t \in Threads :
          FoundEntry(t)
            => /\ pc'[t] = "send" /\ res'[t] = rpc[callWs[t]]
               /\ UNCHANGED <<processes, rpc, st>>
     /\ \A j \in 1..Len(gets') : \A i \in 1..Len(gets') :
          Consecutive(i, j)' => gets'[j].conn = gets'[i].conn]_vars

\* what the code gives for consecutive calls: the same connection while the
\* calls for the workspace have never overlapped and the subprocess of the
\* connection has not exited
SerialGetsSameInstance ==
  \A j \in 1..Len(gets) : \A i \in 1..Len(gets) :
    (Consecutive(i, j) /\ ~overlap[gets[j].ws] /\ gets[i].conn \notin gets[j].exited)
      => gets[j].conn = gets[i].conn

\* two consecutive calls of one thread returned the connections of two
\* subprocesses that are both alive
TwoInstancesInARow ==
  \E j \in 1..Len(gets) : \E i \in 1..Len(gets) :
    /\ Consecutive(i, j) /\ gets[i].thread = gets[j].thread
    /\ gets[j].conn # gets[i].conn
    /\ st[gets[i].conn] = "alive" /\ st[gets[j].conn] = "alive"

\* ----------------------------------- claims on registration and shutdown
\* the pool accepted a monitor task for the subprocess
MonitorAccepted(p) == mon[p] # "none"

\* C26: start_process never leaves a registered entry without a monitor:
\* once it has ended, the subprocess and the connection in the map each
\* have a monitor task that the worker pool accepted.
C26_EveryEntryHasMonitor ==
  \A w \in Workspaces :
    ~StartInProgress(w)
      => /\ rpc[w] # NoProc => MonitorAccepted(rpc[w])
         /\ processes[w] # NoProc => MonitorAccepted(processes[w])

\* what the code gives: every entry has its monitor while the pool has not
\* been shut down
EveryEntryHasMonitorBeforeShutdown == ~poolShut => C26_EveryEntryHasMonitor

\* a live subprocess is registered with its connection open, no call is in
\* progress, and nothing watches it
UnwatchedEntry ==
  \E w \in Workspaces :
    /\ \A t \in Threads : pc[t] = "idle"
    /\ rpc[w] # NoProc /\ processes[w] = rpc[w]
    /\ st[rpc[w]] = "alive" /\ ~closed[rpc[w]] /\ ~MonitorAccepted(rpc[w])

\* C27: stop_all_processes never raises, whatever monitors and
\* start_process calls do to the map while it iterates.
C27_StopNeverRaises == sPc # "raised"

\* stop_all_processes raised because start_process added an entry during
\* the loop
RaisedByRegistration ==
  sPc = "raised" /\ Cardinality(RegisteredWorkspaces) > sIter.size
\* stop_all_processes raised because a monitor removed an entry during
\* the loop
RaisedByMonitor ==
  sPc = "raised" /\ Cardinality(RegisteredWorkspaces) < sIter.size

\* -------------------------------------------- claims on the host lifetime
\* the interpreter has exited and the last stop_all_processes has ended
HostGone == host = "atexit" /\ sPc \in {"returned", "raised"}

\* C24: over a lifetime of the host, stop_all_processes is executed exactly
\* once.
C24_StopExactlyOnce == HostGone => nStops = 1

\* what the code gives: at least once, and up to three times
StopOnceToThrice == HostGone => nStops \in 1..3

\* a lifetime with a shutdown request, an exit notification and the
\* interpreter exit has run stop_all_processes three times, each to its end
StoppedThreeTimes == HostGone /\ nStops = 3 /\ sPc = "returned"

\* ------------------------------------------------- claims on the watcher
\* C29: the watcher never sends two consecutive ZENML_SERVER_CHANGED
\* notifications that carry the same URL.
C29_NoRepeatedServerChanged ==
  \A k \in 1..(Len(notes) - 1) : notes[k] # notes[k + 1]

\* what the code gives: no repeated notification while no callback began
\* during another callback
NoRepeatWithoutOverlap == ~watchOverlap => C29_NoRepeatedServerChanged

\* the file was set to one URL and never changed again, every callback has
\* ended, and the client was told twice that the server changed to it
SameUrlSentTwice ==
  /\ notes = <<"a", "a">> /\ fileUrl = "a"
  /\ \A i \in Timers : ~InCallback(i) /\ timer[i].state # "armed"

====
